---- MODULE Spec2Model ----
(***************************************************************************)
(* Model of the data-access and alarm-classification layer of the SICU     *)
(* alarm monitoring tool: the patient record store PatientDataJson with    *)
(* its background SaveWorkerThread (data_structure.py) and the             *)
(* auto-classification engine AlarmValidator (alarm_default_validator.py). *)
(*                                                                         *)
(* Strings are sequences of tokens.  A token stands for a block of         *)
(* characters that the code never looks inside ("2025-05-01", "02:15:30")  *)
(* or for a single separator character (" ", ".", "_", "(", ")").          *)
(* None / NaN of a string-valued cell is the one-token string NaN; the     *)
(* Classification cell uses the atoms "None", "True", "False".             *)
(***************************************************************************)
EXTENDS Integers, Sequences, FiniteSets, TLC

VARIABLES
    file,       \* patient id -> [st, rows]: the patient's .pkl file on disk
    writable,   \* patient id -> BOOLEAN: open(pkl_file, 'wb') succeeds
    cache,      \* store -> patient id -> [loaded, rows]: patient_dataframes
    pending,    \* pending_saves of the global store
    queue,      \* save_queue of the global store's SaveWorkerThread
    mpc,        \* main thread: [op, todo], position inside a reload
    wpc,        \* worker thread: position inside run / _save_patient_data_sync
    wp,         \* worker: patient id of the task being executed
    wOrig,      \* worker: original_df
    wStale,     \* worker: modified_df is no longer the cached object
    wSnap,      \* worker: rows of modified_df once it is stale
    wPos,       \* worker: <<row, column>> position of the copy loops
    last,       \* the last call completed on the main thread and its result
    wlast,      \* the last task ended by the worker and the signal emitted
    nSets,      \* number of set_alarm_annotation calls made
    nReloads,   \* number of reload calls made
    true_alarm_records, \* AlarmValidator.true_alarm_records
    epc,        \* process_all_alarms: "idle", "patients" or "alarms"
    es,         \* process_all_alarms: the store passed as patient_data_json
    ePats,      \* process_all_alarms: patient ids still to process
    eWork,      \* process_all_alarms: alarms of the current patient still to visit
    eCount,     \* process_all_alarms: <<processed_count, true_alarm_count>>
    elast,      \* the last alarm the engine visited and what it did with it
    eRun,       \* number of process_all_alarms calls started
    eWritten,   \* alarms the running call has written a verdict for
    eLabeled,   \* alarms written by earlier calls, no manual edit since
    eFailed,    \* the running call met a persistence failure
    technical_alarms, \* AlarmFilter.technical_alarms: normalized labels
    cfg,        \* AlarmFilterConfig: [nursing, technical] toggles
    timeline,   \* TimelineWidget.alarms: the alarm list on display
    vlast       \* the last call made by the review window and its result

evars == <<true_alarm_records, epc, es, ePats, eWork, eCount, elast, eRun,
           eWritten, eLabeled, eFailed>>

fvars == <<technical_alarms, cfg, timeline, vlast>>

vars == <<file, writable, cache, pending, queue, mpc, wpc, wp, wOrig, wStale,
          wSnap, wPos, last, wlast, nSets, nReloads, evars, fvars>>

wvars == <<wpc, wp, wOrig, wStale, wSnap, wPos, wlast>>

(***************************************************************************)
(* Bounds of the exploration.                                              *)
(***************************************************************************)
MaxSets == 2
MaxReloads == 1
MaxEdits == 1
MaxRuns == 2

(***************************************************************************)
(* String helpers.                                                         *)
(***************************************************************************)
NaN == <<"NaN">>

notna(s) == s # NaN

contains(s, sub) ==
    \E i \in 0..(Len(s) - Len(sub)) : SubSeq(s, i + 1, i + Len(sub)) = sub

RECURSIVE split(_, _)
split(s, sep) ==
    IF \A i \in 1..Len(s) : s[i] # sep
    THEN <<s>>
    ELSE LET k == CHOOSE i \in 1..Len(s) :
                      s[i] = sep /\ \A j \in 1..(i - 1) : s[j] # sep
         IN  <<SubSeq(s, 1, k - 1)>> \o split(SubSeq(s, k + 1, Len(s)), sep)

(* x.split(' ')[0] *)
date_part(s) == split(s, " ")[1]

(* x.split(' ')[1] if ' ' in x else '00:00:00' *)
time_part(s) == IF Len(split(s, " ")) >= 2 THEN split(s, " ")[2] ELSE <<"00:00:00">>

(* f"{date_str} {time_str}" *)
make_timestamp(d, t) == d \o <<" ">> \o t

(***************************************************************************)
(* Sample data.                                                            *)
(***************************************************************************)
Patients == {"P1", "P2"}
Stores == {"G", "S"}

D1 == <<"2025-05-01">>
D2 == <<"2025-05-02">>
D3 == <<"2025-05-03">>
T1 == <<"02:15:30">>
T2 == <<"03:00:00">>
T1us == <<"02:15:30", ".", "500000">>
Tin == <<"08:00:00">>
Tout == <<"20:00:00">>

(* seconds from 2025-05-01 00:00:00 of the sample dates and times *)
seconds_of_date(d) == IF d = D1 THEN 0 ELSE IF d = D2 THEN 86400 ELSE 172800
seconds_of_time(t) ==
    IF t = T1 \/ t = T1us THEN 8130
    ELSE IF t = T2 THEN 10800
    ELSE IF t = Tin THEN 28800
    ELSE IF t = Tout THEN 72000
    ELSE 0

(* timedelta(minutes=30), in seconds *)
Window == 1800

(* nursing records and reference rows: the five compared columns *)
NR(dx, iv, ac, co, va) == [dx |-> dx, iv |-> iv, ac |-> ac, co |-> co, va |-> va]

(* a stored nursing record: the five columns and its recording time, in
   seconds from 2025-05-01 00:00:00 *)
At(rec, at) == [dx |-> rec.dx, iv |-> rec.iv, ac |-> rec.ac, co |-> rec.co,
                va |-> rec.va, at |-> at]

RecMatch == NR(<<" ", "dx", " ", "a", " ", "(", "code1", ")", " ">>,
               <<"int", " ", "b", "(", "code2", ")">>,
               <<"act">>, <<"attr">>, <<"Clonic">>)
RecOther == NR(<<"dx", "z">>, <<"int">>, <<"act">>, <<"attr">>, <<"Clonic">>)

(* the Label cell of a row: a list of strings, one string, or None *)
LabelList(l) == [kind |-> "list", val |-> l]
LabelStr(x) == [kind |-> "str", val |-> x]
LabelNone == [kind |-> "none", val |-> <<>>]

TechFaultX == <<"TechFaultX">>
TechFaultZ == <<"Tech", " ", "Fault", " ", "Z">>
ClinicalEventY == <<"ClinicalEventY">>
LeadsOff == <<"Leads", " ", "Off">>

(* the waveform columns ABP_WAVEFORM, ECG_WAVEFORM, PPG_WAVEFORM and
   RESP_WAVEFORM under their display names *)
Channels == {"ABP", "Lead-II", "Pleth", "Resp"}

(* a waveform cell: a list of samples, a list holding an element that is not
   a number, a scalar that is no list (a text blob), or NaN *)
Samples(l) == [kind |-> "list", val |-> l, numeric |-> TRUE]
BadSamples(l) == [kind |-> "list", val |-> l, numeric |-> FALSE]
Blob == [kind |-> "scalar", val |-> <<>>, numeric |-> FALSE]
NoSamples == [kind |-> "nan", val |-> <<>>, numeric |-> FALSE]

WaveOk == [ch \in Channels |-> Samples(<<1, 2>>)]

(* the <param>_numeric and <param>_numeric_time_diff_sec cells of a row *)
NumericParams == {"HR", "SpO2"}
NumOk == [n \in NumericParams |-> <<(<<"72">>), (<<"3">>)>>]

Row(i, ts, view, ain, aout, cls, cmt, sel, nr, label) ==
    [idx |-> i, ts |-> ts, isView |-> view, ain |-> ain, aout |-> aout,
     cls |-> cls, cmt |-> cmt, sel |-> sel, nr |-> nr, label |-> label,
     wave |-> WaveOk, num |-> NumOk]

AdmIn == make_timestamp(D1, Tin)
AdmOut == make_timestamp(D3, Tout)

(* two unlabeled alarms of one closed admission; the nursing records of the
   first are stored later-first *)
FrameA == <<
    Row(0, make_timestamp(D1, T1), TRUE, AdmIn, AdmOut, "None", NaN, FALSE,
        <<At(RecOther, 8400), At(RecMatch, 6922)>>,
        LabelList(<<TechFaultX, ClinicalEventY>>)),
    Row(1, make_timestamp(D1, T2), TRUE, AdmIn, AdmOut, "None", NaN, FALSE, <<>>,
        LabelList(<<TechFaultX, TechFaultZ>>)) >>

(* a labeled alarm, a hidden row, a duplicate timestamp; nursing records
   exactly 30 minutes before and after their alarm *)
FrameB == <<
    Row(0, make_timestamp(D1, T1), TRUE, AdmIn, AdmOut, "True", <<"note">>, TRUE,
        <<At(RecMatch, 6330), At(RecOther, 6330)>>, LabelStr(TechFaultX)),
    Row(1, make_timestamp(D1, T2), FALSE, AdmIn, AdmOut, "None", NaN, FALSE, <<>>,
        LabelNone),
    Row(2, make_timestamp(D1, T1), TRUE, AdmIn, AdmOut, "False", <<"dup">>, TRUE, <<>>,
        LabelStr(ClinicalEventY)),
    Row(3, make_timestamp(D2, T2), TRUE, AdmIn, AdmOut, "None", NaN, FALSE,
        <<At(RecOther, 99000)>>, LabelNone) >>

(* a sub-second timestamp, an ongoing admission, and a later alarm of the
   closed admission *)
FrameC == <<
    Row(0, make_timestamp(D1, T1us), TRUE, AdmIn, AdmOut, "None", NaN, FALSE,
        <<At(RecMatch, 6922)>>, LabelStr(LeadsOff \o <<"/">> \o TechFaultZ)),
    Row(1, make_timestamp(D2, T1), TRUE, AdmIn, NaN, "None", NaN, FALSE,
        <<At(RecMatch, 93322)>>, LabelStr(<<"None">>)),
    Row(2, make_timestamp(D2, T2), TRUE, AdmIn, AdmOut, "None", NaN, FALSE, <<>>,
        LabelList(<<>>)) >>

(* a single alarm with no admission fields and a matching nursing record; one
   stored nursing record is 30 minutes and 1 second after the alarm *)
FrameD == <<
    Row(0, make_timestamp(D1, T1), TRUE, NaN, NaN, "None", NaN, FALSE,
        <<At(RecOther, 9931), At(RecMatch, 6922)>>,
        LabelStr(TechFaultX \o <<" ", "/", " ">> \o LeadsOff)) >>

(* an alarm of a closed admission and an alarm of an admission with a start
   and no end; the label string of the first uses both separators *)
FrameE == <<
    Row(0, make_timestamp(D1, T1), TRUE, AdmIn, AdmOut, "None", NaN, FALSE,
        <<At(RecMatch, 6922)>>,
        LabelStr(LeadsOff \o <<" ", "/", " ">> \o TechFaultX \o <<"/">> \o TechFaultZ)),
    Row(1, make_timestamp(D2, T1), TRUE, make_timestamp(D2, Tin), NaN, "None", NaN, FALSE,
        <<>>, LabelNone) >>

(* two closed admissions and an ongoing one; the second alarm of the first
   admission is stamped after that admission's end *)
AdmA == D1 \o <<"_">> \o D2
AdmB == D3 \o <<"_">> \o D3

FrameF == <<
    Row(0, make_timestamp(D1, Tout), TRUE, make_timestamp(D1, Tin),
        make_timestamp(D2, Tin), "None", NaN, FALSE, <<>>, LabelNone),
    Row(1, make_timestamp(D2, Tout), TRUE, make_timestamp(D1, Tin),
        make_timestamp(D2, Tin), "None", NaN, FALSE, <<>>, LabelNone),
    Row(2, make_timestamp(D3, T2), TRUE, make_timestamp(D3, T1),
        make_timestamp(D3, Tin), "None", NaN, FALSE, <<>>, LabelNone),
    Row(3, make_timestamp(D3, Tout), TRUE, make_timestamp(D3, Tout), NaN,
        "None", NaN, FALSE, <<>>, LabelNone) >>

(* alarms of one date stored later-first, and alarms of two short admissions
   that start and end on that same date *)
FrameU == <<
    Row(0, make_timestamp(D1, Tout), TRUE, AdmIn, AdmOut, "None", NaN, FALSE, <<>>,
        LabelNone),
    Row(1, make_timestamp(D1, T2), TRUE, AdmIn, AdmOut, "True", <<"note">>, TRUE, <<>>,
        LabelNone),
    Row(2, make_timestamp(D1, T1), TRUE, make_timestamp(D1, T1), make_timestamp(D1, T2),
        "None", NaN, FALSE, <<>>, LabelNone),
    Row(3, make_timestamp(D1, Tin), TRUE, make_timestamp(D1, Tin), make_timestamp(D1, Tout),
        "None", NaN, FALSE, <<>>, LabelNone) >>

(* rows whose isView cell is False only *)
FrameH == <<
    Row(0, make_timestamp(D1, T1), FALSE, NaN, NaN, "True", <<"note">>, TRUE,
        <<At(RecMatch, 6922)>>, LabelStr(TechFaultX)) >>

(* waveform snapshots: a text blob in one channel, a list that holds no
   number in another, a timestamp with sub-second digits next to the same
   second without them, empty and missing cells *)
FrameW == <<
    [Row(0, make_timestamp(D1, T1), TRUE, NaN, NaN, "None", NaN, FALSE, <<>>,
         LabelStr(TechFaultX))
       EXCEPT !.wave = [WaveOk EXCEPT !["Lead-II"] = Blob, !["Resp"] = NoSamples]],
    [Row(1, make_timestamp(D1, T1us), TRUE, NaN, NaN, "None", NaN, FALSE, <<>>,
         LabelNone)
       EXCEPT !.wave = [WaveOk EXCEPT !["Pleth"] = Samples(<<>>)],
              !.num = [NumOk EXCEPT !["SpO2"] = <<NaN, NaN>>]],
    [Row(2, make_timestamp(D2, T2), TRUE, NaN, NaN, "None", NaN, FALSE, <<>>,
         LabelList(<<TechFaultX, LeadsOff>>))
       EXCEPT !.wave = [WaveOk EXCEPT !["ABP"] = BadSamples(<<1, 2>>)]] >>

FileOk(rows) == [st |-> "ok", rows |-> rows]
FileMissing == [st |-> "missing", rows |-> <<>>]
FilePartial == [st |-> "partial", rows |-> <<>>]

AllWritable == [p \in Patients |-> TRUE]

(* the data directory at start: the two patient files, and which of them
   refuse to be opened for writing *)
Scenarios == {
    [file |-> [p \in Patients |-> IF p = "P1" THEN FileOk(FrameA) ELSE FileOk(FrameD)],
     writable |-> AllWritable],
    [file |-> [p \in Patients |-> IF p = "P1" THEN FileOk(FrameB) ELSE FileOk(FrameD)],
     writable |-> AllWritable],
    [file |-> [p \in Patients |-> IF p = "P1" THEN FileOk(FrameC) ELSE FileMissing],
     writable |-> AllWritable],
    [file |-> [p \in Patients |-> IF p = "P1" THEN FileOk(FrameA) ELSE FileMissing],
     writable |-> [p \in Patients |-> p # "P1"]] }

(* the data directories the batch engine is run on: also a patient with an
   ongoing admission *)
EngineScenarios == Scenarios \cup {
    [file |-> [p \in Patients |-> IF p = "P1" THEN FileOk(FrameE) ELSE FileMissing],
     writable |-> AllWritable] }

(* the data directories the read operations are exercised on *)
ReadScenarios == EngineScenarios \cup {
    [file |-> [p \in Patients |-> IF p = "P1" THEN FileOk(FrameF) ELSE FileOk(FrameH)],
     writable |-> AllWritable],
    [file |-> [p \in Patients |-> IF p = "P1" THEN FileOk(FrameW) ELSE FilePartial],
     writable |-> AllWritable],
    [file |-> [p \in Patients |-> IF p = "P1" THEN FileOk(FrameU) ELSE FileMissing],
     writable |-> AllWritable] }

(* the (date, time) arguments of the annotation calls *)
Queries == {<<D1, T1>>, <<D1, T2>>}

(* the arguments <<patient_id, date_str, time_str, classification, comment>>
   the interactive thread passes to set_alarm_annotation *)
SetInputs == {
    <<"P1", D1, T1, "None", <<>>>>,
    <<"P1", D1, T1, "True", <<"note">>>>,
    <<"P1", D1, T1, "False", <<>>>>,
    <<"P1", D1, T2, "True", <<"note">>>>,
    <<"P2", D1, T1, "False", <<>>>> }

(* the arguments of the manual calls made between two runs of the engine *)
EditInputs == {
    <<"P1", D1, T1, "None", <<>>>>,
    <<"P1", D1, T1, "False", <<>>>> }

(***************************************************************************)
(* DataFrame helpers.                                                      *)
(***************************************************************************)
RECURSIVE SelectRows(_, _)
SelectRows(rows, keep) ==
    IF rows = <<>> THEN <<>>
    ELSE (IF keep[1] THEN <<Head(rows)>> ELSE <<>>)
         \o SelectRows(Tail(rows), Tail(keep))

(* df[df['isView'].fillna(False) == True] *)
filter_isView(rows) == SelectRows(rows, [i \in 1..Len(rows) |-> rows[i].isView])

(* a faulty dedup: keep='last' *)
drop_duplicates_last(rows) ==
    SelectRows(rows, [i \in 1..Len(rows) |->
                         \A j \in (i + 1)..Len(rows) : rows[j].ts # rows[i].ts])

(* drop_duplicates(subset=['TimeStamp_str'], keep='first') *)
drop_duplicates(rows) ==
    SelectRows(rows, [i \in 1..Len(rows) |->
                         \A j \in 1..(i - 1) : rows[j].ts # rows[i].ts])

NotLoaded == [loaded |-> FALSE, rows |-> <<>>]

(* _load_patient_data: the cache entry of patient p after the call *)
load_patient_data(c, f, p) ==
    IF c[p].loaded THEN c[p]
    ELSE IF f[p].st # "ok" THEN NotLoaded
    ELSE LET df == drop_duplicates(filter_isView(f[p].rows))
         IN  IF Len(df) > 0 THEN [loaded |-> TRUE, rows |-> df] ELSE NotLoaded

(* a faulty mask: only rows that carry no classification yet are matched *)
first_match_unlabeled(rows, d, t) ==
    LET ts == make_timestamp(d, t)
        m  == {i \in 1..Len(rows) : rows[i].ts = ts /\ rows[i].cls = "None"}
    IN  IF m = {} THEN 0 ELSE CHOOSE i \in m : \A j \in m : i <= j

(* the three-stage mask of get/set_alarm_annotation; 0 when no row matches *)
first_match(rows, d, t) ==
    LET ts == make_timestamp(d, t)
        m1 == {i \in 1..Len(rows) : rows[i].ts = ts}
        m2 == {i \in 1..Len(rows) : contains(rows[i].ts, ts)}
        m3 == {i \in 1..Len(rows) : contains(rows[i].ts, d) /\ contains(rows[i].ts, t)}
        m  == IF m1 # {} THEN m1 ELSE IF m2 # {} THEN m2 ELSE m3
    IN  IF m = {} THEN 0 ELSE CHOOSE i \in m : \A j \in m : i <= j

NoAnnotation == [classification |-> "None", comment |-> <<>>]

(* get_alarm_annotation on an entry returned by _load_patient_data *)
get_alarm_annotation(df, d, t) ==
    IF ~df.loaded THEN NoAnnotation
    ELSE LET i == first_match(df.rows, d, t)
         IN  IF i = 0 THEN NoAnnotation
             ELSE [classification |->
                       IF df.rows[i].cls \in {"True", "False"} THEN df.rows[i].cls
                       ELSE "None",
                   comment |-> IF notna(df.rows[i].cmt) THEN df.rows[i].cmt ELSE <<>>]

(* get_patient_alarm_stats *)
(* a faulty count: the rows marked isSelected are counted as labeled *)
get_patient_alarm_stats_selected(df) ==
    IF ~df.loaded THEN [labeled |-> 0, total |-> 0]
    ELSE [labeled |-> Cardinality({i \in 1..Len(df.rows) : df.rows[i].sel}),
          total |-> Len(df.rows)]

get_patient_alarm_stats(df) ==
    IF ~df.loaded THEN [labeled |-> 0, total |-> 0]
    ELSE [labeled |-> Cardinality({i \in 1..Len(df.rows) : df.rows[i].cls # "None"}),
          total |-> Len(df.rows)]

(* a faulty selection: the whole column is written *)
loc_column(rows, idx) == 1..Len(rows)

(* df.loc[found_idx, ...]: the positions of the rows with index label idx *)
loc(rows, idx) == {k \in 1..Len(rows) : rows[k].idx = idx}

(* a faulty update: the Comment cell is not written *)
apply_annotation_drop_comment(rows, i, c, m) ==
    [rows EXCEPT ![i] = [@ EXCEPT !.cls = c,
                                  !.sel = IF c # "None" THEN TRUE ELSE @]]

(* the in-memory update of set_alarm_annotation on row number i *)
apply_annotation(rows, i, c, m) ==
    [k \in 1..Len(rows) |->
        IF k \in loc(rows, rows[i].idx)
        THEN [rows[k] EXCEPT !.cls = c, !.cmt = m,
                             !.sel = IF c # "None" THEN TRUE ELSE @]
        ELSE rows[k]]

(* a faulty enqueue: no check of pending_saves *)
save_patient_data_async_nodedup(p) ==
    /\ file' = file
    /\ pending' = pending \cup {p}
    /\ queue' = Append(queue, p)

(* a faulty save: the file is written by the calling thread *)
save_patient_data_async_inline(p) ==
    /\ file' = [file EXCEPT ![p] =
                    [st |-> "ok",
                     rows |-> [k \in 1..Len(file[p].rows) |->
                                  IF \E i \in 1..Len(cache'["G"][p].rows) :
                                         cache'["G"][p].rows[i].idx = file[p].rows[k].idx
                                  THEN LET i == CHOOSE i \in 1..Len(cache'["G"][p].rows) :
                                                    cache'["G"][p].rows[i].idx = file[p].rows[k].idx
                                       IN  [file[p].rows[k] EXCEPT
                                               !.cls = cache'["G"][p].rows[i].cls,
                                               !.cmt = cache'["G"][p].rows[i].cmt,
                                               !.sel = cache'["G"][p].rows[i].sel]
                                  ELSE file[p].rows[k]]]]
    /\ UNCHANGED <<pending, queue>>

(***************************************************************************)
(* save_patient_data_async: deduplicated enqueue of a save task.           *)
(***************************************************************************)
save_patient_data_async(p) ==
    /\ file' = file
    /\ IF p \in pending
       THEN UNCHANGED <<pending, queue>>
       ELSE /\ pending' = pending \cup {p}
            /\ queue' = Append(queue, p)

(***************************************************************************)
(* What a reader of the global store sees for patient p: every read        *)
(* operation starts with _load_patient_data.                               *)
(***************************************************************************)
View(p) == load_patient_data(cache["G"], file, p)

NoCall == [op |-> "none", p |-> "", d |-> <<>>, t |-> <<>>, c |-> "None",
           m |-> <<>>, ret |-> FALSE, again |-> FALSE]

Call(op, p, d, t, c, m, ret) ==
    [op |-> op, p |-> p, d |-> d, t |-> t, c |-> c, m |-> m, ret |-> ret,
     again |-> FALSE]

(* the call repeats the arguments of the call before it, a set_alarm_annotation
   that returned True *)
Repeats(p, d, t, c, m) ==
    /\ last.op = "set" /\ last.ret
    /\ last.p = p /\ last.d = d /\ last.t = t /\ last.c = c /\ last.m = m

MainIdle == mpc.op = "idle"

(* a faulty set_alarm_annotation: a save is requested also when it fails *)
set_alarm_annotation_save_on_failure(p, d, t, c, m) ==
    LET df == load_patient_data(cache["G"], file, p)
        i  == IF df.loaded THEN first_match(df.rows, d, t) ELSE 0
    IN  IF i = 0
        THEN /\ cache' = [cache EXCEPT !["G"][p] = df]
             /\ last' = [Call("set", p, d, t, c, m, FALSE) EXCEPT
                             !.again = Repeats(p, d, t, c, m)]
             /\ save_patient_data_async(p)
        ELSE /\ cache' = [cache EXCEPT !["G"][p] =
                             [loaded |-> TRUE, rows |-> apply_annotation(df.rows, i, c, m)]]
             /\ last' = [Call("set", p, d, t, c, m, TRUE) EXCEPT
                             !.again = Repeats(p, d, t, c, m)]
             /\ save_patient_data_async(p)

(***************************************************************************)
(* set_alarm_annotation on the global store.                               *)
(***************************************************************************)
set_alarm_annotation(p, d, t, c, m) ==
    LET df == load_patient_data(cache["G"], file, p)
        i  == IF df.loaded THEN first_match(df.rows, d, t) ELSE 0
    IN  IF i = 0
        THEN /\ cache' = [cache EXCEPT !["G"][p] = df]
             /\ last' = [Call("set", p, d, t, c, m, FALSE) EXCEPT
                             !.again = Repeats(p, d, t, c, m)]
             /\ UNCHANGED <<file, pending, queue>>
        ELSE /\ cache' = [cache EXCEPT !["G"][p] =
                             [loaded |-> TRUE, rows |-> apply_annotation(df.rows, i, c, m)]]
             /\ last' = [Call("set", p, d, t, c, m, TRUE) EXCEPT
                             !.again = Repeats(p, d, t, c, m)]
             /\ save_patient_data_async(p)

SetAnnotation ==
    /\ MainIdle
    /\ nSets < MaxSets
    /\ \E x \in SetInputs : set_alarm_annotation(x[1], x[2], x[3], x[4], x[5])
    /\ nSets' = nSets + 1
    /\ UNCHANGED <<writable, mpc, wvars, nReloads, evars, fvars>>

(***************************************************************************)
(* Any read operation (get_alarm_annotation, get_patient_alarm_stats,      *)
(* get_alarms_for_date, ...): its only effect is the lazy load.            *)
(***************************************************************************)
ReadPatient ==
    /\ MainIdle
    /\ \E p \in Patients :
           /\ cache' = [cache EXCEPT !["G"][p] = load_patient_data(cache["G"], file, p)]
           /\ last' = Call("get", p, <<>>, <<>>, "None", <<>>, TRUE)
    /\ UNCHANGED <<file, writable, pending, queue, mpc, wvars, nSets, nReloads, evars, fvars>>

(***************************************************************************)
(* reload_patient_data / reload_all_patients.  The cache entry is dropped  *)
(* first and loaded again afterwards; the worker may run in between.       *)
(***************************************************************************)
(* get_all_patient_ids: sorted stems of the *.pkl files *)
get_all_patient_ids ==
    (IF file["P1"].st # "missing" THEN <<"P1">> ELSE <<>>)
    \o (IF file["P2"].st # "missing" THEN <<"P2">> ELSE <<>>)

(* the worker's modified_df keeps the object that the cache held *)
DetachWorker(ps) ==
    IF wpc \in {"copy", "open", "dumping"} /\ ~wStale /\ wp \in ps
    THEN /\ wStale' = TRUE
         /\ wSnap' = cache["G"][wp].rows
    ELSE UNCHANGED <<wStale, wSnap>>

reload_patient_data(p) ==
    /\ cache' = [cache EXCEPT !["G"][p] = NotLoaded]
    /\ mpc' = [op |-> "reload", todo |-> <<p>>]
    /\ last' = Call("reload", p, <<>>, <<>>, "None", <<>>, TRUE)
    /\ DetachWorker({p})

reload_all_patients ==
    /\ cache' = [cache EXCEPT !["G"] = [p \in Patients |-> NotLoaded]]
    /\ mpc' = IF get_all_patient_ids = <<>> THEN [op |-> "idle", todo |-> <<>>]
              ELSE [op |-> "reload_all", todo |-> get_all_patient_ids]
    /\ last' = Call("reload_all", "", <<>>, <<>>, "None", <<>>, TRUE)
    /\ DetachWorker(Patients)

ReloadPatient ==
    /\ MainIdle
    /\ nReloads < MaxReloads
    /\ \E p \in Patients : reload_patient_data(p)
    /\ nReloads' = nReloads + 1
    /\ UNCHANGED <<file, writable, pending, queue, wpc, wp, wOrig, wPos, wlast, nSets, evars, fvars>>

ReloadAll ==
    /\ MainIdle
    /\ nReloads < MaxReloads
    /\ reload_all_patients
    /\ nReloads' = nReloads + 1
    /\ UNCHANGED <<file, writable, pending, queue, wpc, wp, wOrig, wPos, wlast, nSets, evars, fvars>>

(* the _load_patient_data call(s) that end a reload *)
ReloadLoad ==
    /\ mpc.op \in {"reload", "reload_all"}
    /\ cache' = [cache EXCEPT !["G"][Head(mpc.todo)] =
                     load_patient_data(cache["G"], file, Head(mpc.todo))]
    /\ mpc' = IF Tail(mpc.todo) = <<>> THEN [op |-> "idle", todo |-> <<>>]
              ELSE [mpc EXCEPT !.todo = Tail(@)]
    /\ UNCHANGED <<file, writable, pending, queue, wvars, last, nSets, nReloads, evars, fvars>>

(***************************************************************************)
(* SaveWorkerThread.run and _save_patient_data_sync, one step at a time.   *)
(***************************************************************************)
NoTask == [p |-> "", ret |-> FALSE, signal |-> "none"]

(* run(): save_completed unless the task raised *)
run_signal(raised) == IF raised THEN "save_failed" ELSE "save_completed"

(* the end of a task: the value _save_patient_data_sync returned and the
   signal run() emits after it; the function catches its own exceptions *)
task_end(p, ret) == [p |-> p, ret |-> ret, signal |-> run_signal(FALSE)]

(* self.running: False from the first statement of stop() on *)
running == mpc.op \notin {"stop", "wait"}

(* the position of run() after a task: the loop test `while self.running` *)
loop_test == IF running THEN "idle" ELSE "exited"

(* task = self.save_queue.get(); `if task is None: break` *)
WorkerTake ==
    /\ wpc = "idle"
    /\ queue # <<>>
    /\ wp' = IF Head(queue) = "None" THEN wp ELSE Head(queue)
    /\ queue' = Tail(queue)
    /\ wpc' = IF Head(queue) = "None" THEN "exited" ELSE "check"
    /\ UNCHANGED <<file, writable, cache, pending, mpc, wOrig, wStale, wSnap, wPos,
                   last, wlast, nSets, nReloads, evars, fvars>>

(* lines 160-172: cache check, read of the original file *)
WorkerCheck ==
    /\ wpc = "check"
    /\ IF ~cache["G"][wp].loaded
       THEN /\ wpc' = loop_test
            /\ wlast' = task_end(wp, FALSE)
            /\ UNCHANGED <<pending, wOrig, wStale, wSnap, wPos>>
       ELSE IF file[wp].st = "ok"
       THEN /\ wpc' = "copy"
            /\ wOrig' = file[wp].rows
            /\ wStale' = FALSE
            /\ wSnap' = <<>>
            /\ wPos' = <<1, 1>>
            /\ UNCHANGED <<pending, wlast>>
       ELSE IF file[wp].st = "missing"
       THEN /\ wpc' = "open"
            /\ wOrig' = cache["G"][wp].rows
            /\ wStale' = FALSE
            /\ wSnap' = <<>>
            /\ UNCHANGED <<pending, wlast, wPos>>
       ELSE /\ wpc' = loop_test
            /\ pending' = pending \ {wp}
            /\ wlast' = task_end(wp, FALSE)
            /\ UNCHANGED <<wOrig, wStale, wSnap, wPos>>
    /\ UNCHANGED <<file, writable, cache, queue, mpc, wp, last, nSets, nReloads, evars, fvars>>

Columns == <<"cls", "cmt", "sel">>

(* a faulty copy: the target rows are picked by timestamp *)
copy_cell_by_timestamp(orig, row, col) ==
    [k \in 1..Len(orig) |->
        IF orig[k].ts = row.ts
        THEN IF col = "cls" THEN [orig[k] EXCEPT !.cls = row.cls]
             ELSE IF col = "cmt" THEN [orig[k] EXCEPT !.cmt = row.cmt]
             ELSE [orig[k] EXCEPT !.sel = row.sel]
        ELSE orig[k]]

(* original_df.loc[idx, col] = modified_df.loc[idx, col] *)
copy_cell(orig, row, col) ==
    [k \in 1..Len(orig) |->
        IF orig[k].idx = row.idx
        THEN IF col = "cls" THEN [orig[k] EXCEPT !.cls = row.cls]
             ELSE IF col = "cmt" THEN [orig[k] EXCEPT !.cmt = row.cmt]
             ELSE [orig[k] EXCEPT !.sel = row.sel]
        ELSE orig[k]]

(* lines 175-188: one iteration of the inner column loop *)
WorkerCopy ==
    /\ wpc = "copy"
    /\ LET mod == IF wStale THEN wSnap ELSE cache["G"][wp].rows
           r == wPos[1]
           c == wPos[2]
           next == IF c < Len(Columns) THEN <<r, c + 1>> ELSE <<r + 1, 1>>
       IN  /\ wOrig' = copy_cell(wOrig, mod[r], Columns[c])
           /\ IF next[1] > Len(mod)
              THEN wpc' = "open" /\ wPos' = <<1, 1>>
              ELSE wpc' = "copy" /\ wPos' = next
    /\ UNCHANGED <<file, writable, cache, pending, queue, mpc, wp, wStale, wSnap,
                   last, wlast, nSets, nReloads, evars, fvars>>

(* line 194: open(pkl_file, 'wb') truncates the file, or raises *)
WorkerOpen ==
    /\ wpc = "open"
    /\ IF writable[wp]
       THEN /\ file' = [file EXCEPT ![wp] = FilePartial]
            /\ wpc' = "dumping"
            /\ UNCHANGED <<pending, wlast>>
       ELSE /\ wpc' = loop_test
            /\ pending' = pending \ {wp}
            /\ wlast' = task_end(wp, FALSE)
            /\ UNCHANGED file
    /\ UNCHANGED <<writable, cache, queue, mpc, wp, wOrig, wStale, wSnap, wPos,
                   last, nSets, nReloads, evars, fvars>>

(* line 195: pickle.dump and close *)
WorkerDump ==
    /\ wpc = "dumping"
    /\ file' = [file EXCEPT ![wp] = FileOk(wOrig)]
    /\ wpc' = "written"
    /\ UNCHANGED <<writable, cache, pending, queue, mpc, wp, wOrig, wStale, wSnap,
                   wPos, last, wlast, nSets, nReloads, evars, fvars>>

(* lines 198-201 and run() line 52 *)
WorkerDone ==
    /\ wpc = "written"
    /\ pending' = pending \ {wp}
    /\ wlast' = task_end(wp, TRUE)
    /\ wpc' = loop_test
    /\ UNCHANGED <<file, writable, cache, queue, mpc, wp, wOrig, wStale, wSnap,
                   wPos, last, nSets, nReloads, evars, fvars>>

Worker == WorkerTake \/ WorkerCheck \/ WorkerCopy \/ WorkerOpen \/ WorkerDump \/ WorkerDone

(***************************************************************************)
(* SaveWorkerThread.stop, called by PatientDataJson.__del__, and the end   *)
(* of run().                                                               *)
(***************************************************************************)
(* stop(): self.running = False *)
Stop ==
    /\ MainIdle
    /\ mpc' = [op |-> "stop", todo |-> <<>>]
    /\ UNCHANGED <<file, writable, cache, pending, queue, wvars, last, nSets, nReloads,
                   evars, fvars>>

(* stop(): self.save_queue.put(None), then self.wait() *)
StopPut ==
    /\ mpc.op = "stop"
    /\ queue' = Append(queue, "None")
    /\ mpc' = [op |-> "wait", todo |-> <<>>]
    /\ UNCHANGED <<file, writable, cache, pending, wvars, last, nSets, nReloads,
                   evars, fvars>>

(* run(): the loop test of a worker that is between two tasks finds
   self.running False *)
WorkerExit ==
    /\ wpc = "idle"
    /\ ~running
    /\ wpc' = "exited"
    /\ UNCHANGED <<file, writable, cache, pending, queue, mpc, wp, wOrig, wStale, wSnap,
                   wPos, last, wlast, nSets, nReloads, evars, fvars>>

(***************************************************************************)
(* Listings of the store used by the batch engine.                         *)
(***************************************************************************)
(* order of the sample strings under Python's string comparison *)
str_rank(x) ==
    IF x = <<"00:00:00">> THEN 0
    ELSE IF x = T1 THEN 1
    ELSE IF x = T1us THEN 2
    ELSE IF x = T2 THEN 3
    ELSE IF x = Tin THEN 4
    ELSE IF x = Tout THEN 5
    ELSE IF x = D1 THEN 6
    ELSE IF x = D2 THEN 7
    ELSE 8

(* sorted(...): stable insertion sort of [key, val] entries by key *)
RECURSIVE insert_sorted(_, _)
insert_sorted(sq, x) ==
    IF sq = <<>> THEN <<x>>
    ELSE IF str_rank(x.key) < str_rank(Head(sq).key)
         THEN <<x>> \o sq
         ELSE <<Head(sq)>> \o insert_sorted(Tail(sq), x)

RECURSIVE sorted(_)
sorted(sq) ==
    IF sq = <<>> THEN <<>>
    ELSE insert_sorted(sorted(SubSeq(sq, 1, Len(sq) - 1)), sq[Len(sq)])

values(sq) == [i \in 1..Len(sq) |-> sq[i].val]

RECURSIVE unique(_)
unique(sq) ==
    IF sq = <<>> THEN <<>>
    ELSE LET u == unique(SubSeq(sq, 1, Len(sq) - 1))
             x == sq[Len(sq)]
         IN  IF \E i \in 1..Len(u) : u[i] = x THEN u ELSE Append(u, x)

RECURSIVE flatten(_)
flatten(sq) == IF sq = <<>> THEN <<>> ELSE Head(sq) \o flatten(Tail(sq))

DefaultPeriod == [id |-> <<"default">>, start |-> <<"N/A">>, end |-> <<"N/A">>]

(* get_admission_periods *)
get_admission_periods(df) ==
    IF ~df.loaded THEN <<>>
    ELSE LET both  == SelectRows(df.rows, [i \in 1..Len(df.rows) |->
                          notna(df.rows[i].ain) /\ notna(df.rows[i].aout)])
             pairs == unique([i \in 1..Len(both) |-> <<both[i].ain, both[i].aout>>])
             periods == [i \in 1..Len(pairs) |->
                            [id |-> date_part(pairs[i][1]) \o <<"_">> \o date_part(pairs[i][2]),
                             start |-> date_part(pairs[i][1]),
                             end |-> date_part(pairs[i][2])]]
         IN  IF periods # <<>> THEN periods ELSE <<DefaultPeriod>>

(* a faulty admission check: no row is skipped *)
in_admission_any(row, admission_id) == TRUE

(* the admission check shared by get_available_dates and get_alarms_for_date:
   TRUE when the row is not skipped *)
in_admission(row, admission_id) ==
    LET given   == admission_id # <<>> /\ admission_id # <<"default">>
        parts   == split(admission_id, "_")
        a_start == IF given /\ Len(parts) = 2 THEN parts[1] ELSE NaN
        a_end   == IF given /\ Len(parts) = 2 THEN parts[2] ELSE NaN
        r_start == IF notna(row.ain) THEN date_part(row.ain) ELSE NaN
        r_end   == IF notna(row.aout) THEN date_part(row.aout) ELSE NaN
    IN  given => (r_start = a_start /\ r_end = a_end)

(* get_available_dates *)
get_available_dates(df, admission_id) ==
    IF ~df.loaded THEN <<>>
    ELSE LET rows == SelectRows(df.rows, [i \in 1..Len(df.rows) |->
                         in_admission(df.rows[i], admission_id) /\ notna(df.rows[i].ts)])
             dates == unique([i \in 1..Len(rows) |-> date_part(rows[i].ts)])
         IN  values(sorted([i \in 1..Len(dates) |-> [key |-> dates[i], val |-> dates[i]]]))

(* a faulty listing: the alarms are returned in stored order *)
get_alarms_for_date_unsorted(df, admission_id, date_str) ==
    IF ~df.loaded THEN <<>>
    ELSE LET rows == SelectRows(df.rows, [i \in 1..Len(df.rows) |->
                         /\ in_admission(df.rows[i], admission_id)
                         /\ notna(df.rows[i].ts)
                         /\ date_part(df.rows[i].ts) = date_str])
         IN  [i \in 1..Len(rows) |->
                [time |-> time_part(rows[i].ts),
                 classification |->
                     IF rows[i].cls \in {"True", "False"} THEN rows[i].cls ELSE "None",
                 comment |-> IF notna(rows[i].cmt) THEN rows[i].cmt ELSE <<>>,
                 row_index |-> rows[i].idx]]

(* get_alarms_for_date *)
get_alarms_for_date(df, admission_id, date_str) ==
    IF ~df.loaded THEN <<>>
    ELSE LET rows == SelectRows(df.rows, [i \in 1..Len(df.rows) |->
                         /\ in_admission(df.rows[i], admission_id)
                         /\ notna(df.rows[i].ts)
                         /\ date_part(df.rows[i].ts) = date_str])
             alarms == [i \in 1..Len(rows) |->
                        [time |-> time_part(rows[i].ts),
                         classification |->
                             IF rows[i].cls \in {"True", "False"} THEN rows[i].cls ELSE "None",
                         comment |-> IF notna(rows[i].cmt) THEN rows[i].cmt ELSE <<>>,
                         row_index |-> rows[i].idx]]
         IN  values(sorted([i \in 1..Len(alarms) |->
                               [key |-> alarms[i].time, val |-> alarms[i]]]))

starts_with(s, pre) == Len(pre) <= Len(s) /\ SubSeq(s, 1, Len(pre)) = pre

(* get_nursing_records_for_alarm *)
get_nursing_records_for_alarm(df, timestamp_str) ==
    IF ~df.loaded THEN <<>>
    ELSE LET rows == df.rows
             no_micro == split(timestamp_str, ".")[1]
             m1 == {i \in 1..Len(rows) : rows[i].ts = timestamp_str}
             m2 == {i \in 1..Len(rows) :
                       \/ timestamp_str = rows[i].ts
                       \/ contains(rows[i].ts, timestamp_str)
                       \/ contains(rows[i].ts, no_micro)
                       \/ starts_with(rows[i].ts, timestamp_str)
                       \/ starts_with(rows[i].ts, no_micro)}
             m  == IF m1 # {} THEN m1 ELSE m2
         IN  IF m = {} THEN <<>>
             ELSE rows[CHOOSE i \in m : \A j \in m : i <= j].nr

(***************************************************************************)
(* AlarmValidator.                                                         *)
(***************************************************************************)
Whitespace == {" ", "\t"}

RECURSIVE lstrip(_)
lstrip(s) == IF s # <<>> /\ Head(s) \in Whitespace THEN lstrip(Tail(s)) ELSE s

RECURSIVE rstrip(_)
rstrip(s) ==
    IF s # <<>> /\ s[Len(s)] \in Whitespace THEN rstrip(SubSeq(s, 1, Len(s) - 1)) ELSE s

strip(s) == rstrip(lstrip(s))

lower_token(c) ==
    IF c = "Dx" THEN "dx"
    ELSE IF c = "TechFaultX" THEN "techfaultx"
    ELSE IF c = "Tech" THEN "tech"
    ELSE IF c = "Fault" THEN "fault"
    ELSE IF c = "Z" THEN "z"
    ELSE IF c = "ClinicalEventY" THEN "clinicaleventy"
    ELSE IF c = "Leads" THEN "leads"
    ELSE IF c = "Off" THEN "off"
    ELSE IF c = "None" THEN "none"
    ELSE IF c = "A" THEN "a"
    ELSE IF c = "Int" THEN "int"
    ELSE IF c = "B" THEN "b"
    ELSE IF c = "Clonic" THEN "clonic"
    ELSE c

lower(s) == [i \in 1..Len(s) |-> lower_token(s[i])]

(* s.replace(c, "") *)
remove(s, c) == SelectRows(s, [i \in 1..Len(s) |-> s[i] # c])

(* normalize_string *)
normalize_string(s) == remove(remove(remove(lower(strip(s)), " "), "("), ")")

(* compare_records *)
compare_records(nursing_record, true_alarm_record) ==
    /\ normalize_string(nursing_record.dx) = normalize_string(true_alarm_record.dx)
    /\ normalize_string(nursing_record.iv) = normalize_string(true_alarm_record.iv)
    /\ normalize_string(nursing_record.ac) = normalize_string(true_alarm_record.ac)
    /\ normalize_string(nursing_record.co) = normalize_string(true_alarm_record.co)
    /\ normalize_string(nursing_record.va) = normalize_string(true_alarm_record.va)

(* validate_alarm: is_true_alarm *)
validate_alarm(nursing_records, reference) ==
    \E i \in 1..Len(nursing_records) : \E k \in 1..Len(reference) :
        compare_records(nursing_records[i], reference[k])

(* the rows of the reference file, and load_true_alarm_records *)
ReferenceFile == <<
    NR(<<"Dx", " ", "A", "(", "code1", ")">>, <<"Int", " ", "B", "(", "code2", ")", " ">>,
       <<"act">>, <<"attr">>, <<"clonic">>),
    NR(<<"Dx", " ", "Q">>, <<"Int">>, <<"act">>, <<"attr">>, <<"none">>) >>

RefPresent == [exists |-> TRUE, rows |-> ReferenceFile]
RefEmpty == [exists |-> TRUE, rows |-> <<>>]
RefMissing == [exists |-> FALSE, rows |-> <<>>]

load_true_alarm_records(f) ==
    IF ~f.exists THEN <<>>
    ELSE [i \in 1..Len(f.rows) |->
             NR(strip(f.rows[i].dx), strip(f.rows[i].iv), strip(f.rows[i].ac),
                strip(f.rows[i].co), strip(f.rows[i].va))]

KnownDates == {D1, D2, D3}
KnownTimes == {T1, T2, Tin, Tout, <<"00:00:00">>}

(* datetime.strptime(alarm_timestamp, "%Y-%m-%d %H:%M:%S") raises unless the
   string is a date, one space and a time to the second *)
strptime_ok(ts) ==
    /\ Len(ts) = 3
    /\ <<ts[1]>> \in KnownDates
    /\ ts[2] = " "
    /\ <<ts[3]>> \in KnownTimes

NoVisit == [kind |-> "none", p |-> "", d |-> <<>>, t |-> <<>>, verdict |-> "None",
            stored |-> FALSE, before |-> "None", run |-> 0]

(***************************************************************************)
(* process_all_alarms(patient_data_json).  validate_and_save_alarm writes  *)
(* through the module-level instance patient_data, the store "G", whatever *)
(* store was passed.                                                       *)
(***************************************************************************)
EngineStart ==
    /\ MainIdle
    /\ epc = "idle"
    /\ eRun < MaxRuns
    /\ \E s \in Stores : es' = s
    /\ epc' = "patients"
    /\ ePats' = get_all_patient_ids
    /\ eWork' = <<>>
    /\ eCount' = <<0, 0>>
    /\ eRun' = eRun + 1
    /\ eWritten' = {}
    /\ eFailed' = FALSE
    /\ UNCHANGED <<file, writable, cache, pending, queue, mpc, wvars, last, nSets,
                   nReloads, true_alarm_records, elast, eLabeled, fvars>>

(* lines 169-185: the alarms of one patient, in the order of the loops *)
alarms_of_patient(df, p) ==
    LET periods == get_admission_periods(df)
    IN  flatten([a \in 1..Len(periods) |->
            LET dates == get_available_dates(df, periods[a].id)
            IN  flatten([k \in 1..Len(dates) |->
                    LET alarms == get_alarms_for_date(df, periods[a].id, dates[k])
                    IN  [n \in 1..Len(alarms) |->
                            [p |-> p, adm |-> periods[a].id, d |-> dates[k],
                             t |-> alarms[n].time]]])])

EnginePatient ==
    /\ epc = "patients"
    /\ ePats # <<>>
    /\ LET p  == Head(ePats)
           df == load_patient_data(cache[es], file, p)
       IN  /\ cache' = [cache EXCEPT ![es][p] = df]
           /\ eWork' = alarms_of_patient(df, p)
    /\ epc' = "alarms"
    /\ ePats' = Tail(ePats)
    /\ UNCHANGED <<file, writable, pending, queue, mpc, wvars, last, nSets, nReloads,
                   true_alarm_records, es, eCount, elast, eRun, eWritten, eLabeled,
                   eFailed, fvars>>

(* a faulty loop: a failed save ends the batch *)
next_alarms_abort(work, saved) == IF saved THEN Tail(work) ELSE <<>>

(* lines 185-209: the loop goes to the next alarm whatever
   validate_and_save_alarm returned *)
next_alarms(work, saved) == Tail(work)

(* lines 186-209 with validate_and_save_alarm *)
EngineAlarm ==
    /\ epc = "alarms"
    /\ eWork # <<>>
    /\ LET a == Head(eWork)
           df == load_patient_data(cache[es], file, a.p)
           existing == get_alarm_annotation(df, a.d, a.t)
           alarm_timestamp == make_timestamp(a.d, a.t)
           nursing == get_nursing_records_for_alarm(df, alarm_timestamp)
           is_true == validate_alarm(nursing, true_alarm_records)
           verdict == IF is_true THEN "True" ELSE "False"
           before == get_alarm_annotation(View(a.p), a.d, a.t).classification
           visit(k, st) == [kind |-> k, p |-> a.p, d |-> a.d, t |-> a.t,
                            verdict |-> verdict, stored |-> st, before |-> before,
                            run |-> eRun]
       IN  IF existing.classification # "None"
           THEN /\ elast' = visit("skip", FALSE)
                /\ UNCHANGED <<file, cache, pending, queue, last, eCount, eWritten>>
           ELSE IF ~strptime_ok(alarm_timestamp)
           THEN /\ elast' = visit("validate", FALSE)
                /\ eCount' = <<eCount[1] + 1, eCount[2]>>
                /\ UNCHANGED <<file, cache, pending, queue, last, eWritten>>
           ELSE /\ set_alarm_annotation(a.p, a.d, a.t, verdict, <<>>)
                /\ elast' = visit("validate", last'.ret)
                /\ eCount' = <<eCount[1] + 1,
                               eCount[2] + (IF last'.ret /\ is_true THEN 1 ELSE 0)>>
                /\ eWritten' = IF last'.ret THEN eWritten \cup {<<a.p, a.d, a.t>>}
                               ELSE eWritten
    /\ eWork' = next_alarms(eWork, elast'.kind = "skip" \/ elast'.stored)
    /\ eFailed' = (eFailed \/ (elast'.kind = "validate" /\ ~elast'.stored))
    /\ UNCHANGED <<writable, mpc, wvars, nSets, nReloads, true_alarm_records, epc, es,
                   ePats, eRun, eLabeled, fvars>>

(* the end of the alarms of a patient, and the end of the call *)
EngineNext ==
    /\ epc = "alarms"
    /\ eWork = <<>>
    /\ epc' = "patients"
    /\ UNCHANGED <<file, writable, cache, pending, queue, mpc, wvars, last, nSets,
                   nReloads, true_alarm_records, es, ePats, eWork, eCount, elast, eRun,
                   eWritten, eLabeled, eFailed, fvars>>

EngineFinish ==
    /\ epc = "patients"
    /\ ePats = <<>>
    /\ epc' = "idle"
    /\ eLabeled' = eLabeled \cup eWritten
    /\ UNCHANGED <<file, writable, cache, pending, queue, mpc, wvars, last, nSets,
                   nReloads, true_alarm_records, es, ePats, eWork, eCount, elast, eRun,
                   eWritten, eFailed, fvars>>

(* a manual set_alarm_annotation between two calls of the engine *)
ManualEdit ==
    /\ MainIdle
    /\ epc = "idle"
    /\ eRun >= 1
    /\ nSets < MaxEdits
    /\ \E x \in EditInputs : set_alarm_annotation(x[1], x[2], x[3], x[4], x[5])
    /\ nSets' = nSets + 1
    /\ eLabeled' = {}
    /\ UNCHANGED <<writable, mpc, wvars, nReloads, true_alarm_records, epc, es, ePats,
                   eWork, eCount, elast, eRun, eWritten, eFailed, fvars>>

(***************************************************************************)
(* AlarmFilter, AlarmFilterConfig (components/alarm_filters.py) and the     *)
(* calls of the review window that use them.  The filters read the         *)
(* module-level store patient_data.                                        *)
(***************************************************************************)
(* label.lower().strip().replace(" ", "") *)
normalize_alarm_label(label) ==
    IF label = <<>> THEN <<>> ELSE remove(strip(lower(label)), " ")

(* s.split(sep) for a separator of several characters *)
RECURSIVE split_sub(_, _)
split_sub(s, sep) ==
    IF ~contains(s, sep) THEN <<s>>
    ELSE LET k == CHOOSE i \in 0..(Len(s) - Len(sep)) :
                      /\ SubSeq(s, i + 1, i + Len(sep)) = sep
                      /\ \A j \in 0..(i - 1) : SubSeq(s, j + 1, j + Len(sep)) # sep
         IN  <<SubSeq(s, 1, k)>> \o split_sub(SubSeq(s, k + Len(sep) + 1, Len(s)), sep)

(* sep.join(parts) *)
RECURSIVE join(_, _)
join(parts, sep) ==
    IF parts = <<>> THEN <<>>
    ELSE IF Len(parts) = 1 THEN parts[1]
    ELSE parts[1] \o sep \o join(Tail(parts), sep)

(* the technical label file Filtered_AlarmLabelList.txt *)
LabelLines == <<
    <<"techfaultx", "/", "Tech", " ", "Fault", "Z", " ">>,
    <<" ">>,
    <<" ", "Leads", " ", "Off", " ">> >>

LabelsPresent == [exists |-> TRUE, lines |-> LabelLines]
LabelsEmpty == [exists |-> TRUE, lines |-> << <<" ">>, <<"/">> >>]
LabelsMissing == [exists |-> FALSE, lines |-> <<>>]

(* the labels of one line of the file, normalized *)
line_labels(line0) ==
    LET line == strip(line0)
        raw == IF line = <<>> THEN <<>>
               ELSE IF contains(line, <<"/">>)
               THEN [i \in 1..Len(split(line, "/")) |-> strip(split(line, "/")[i])]
               ELSE <<line>>
    IN  {normalize_alarm_label(raw[i]) : i \in {k \in 1..Len(raw) : raw[k] # <<>>}} \ {<<>>}

(* load_technical_alarms *)
load_technical_alarms(f) ==
    IF ~f.exists THEN {}
    ELSE UNION {line_labels(f.lines[i]) : i \in 1..Len(f.lines)}

(* is_technical_alarm *)
is_technical_alarm(tech, alarm_label) ==
    alarm_label # <<>> /\ normalize_alarm_label(alarm_label) \in tech

(* get_waveform_data: the row the timestamp resolves to; 0 when none *)
waveform_row(df, timestamp) ==
    IF ~df.loaded THEN 0
    ELSE LET rows == df.rows
             spaced == contains(timestamp, <<" ">>)
             tpart == IF spaced THEN split(timestamp, " ")[2] ELSE timestamp
             dpart == IF spaced THEN split(timestamp, " ")[1] ELSE <<>>
             m1 == {i \in 1..Len(rows) : rows[i].ts = timestamp}
             m2 == {i \in 1..Len(rows) :
                       contains(rows[i].ts, dpart) /\ contains(rows[i].ts, tpart)}
             m  == IF m1 # {} THEN m1 ELSE m2
         IN  IF m = {} THEN 0 ELSE CHOOSE i \in m : \A j \in m : i <= j

(* get_waveform_data(...)["AlarmLabel"] of a row *)
AlarmLabel(row) ==
    IF row.label.kind = "list" THEN join(row.label.val, <<" ", "/", " ">>)
    ELSE IF row.label.kind = "str" THEN row.label.val
    ELSE <<>>

(* lines 173-194: the labels extracted from the AlarmLabel string *)
extract_labels(raw) ==
    LET parts == IF contains(raw, <<" ", "/", " ">>) THEN split_sub(raw, <<" ", "/", " ">>)
                 ELSE IF contains(raw, <<"/">>) THEN split(raw, "/")
                 ELSE <<raw>>
        labels == [i \in 1..Len(parts) |-> strip(parts[i])]
    IN  SelectRows(labels, [i \in 1..Len(labels) |->
            labels[i] # <<>> /\ labels[i] # <<"None">> /\ labels[i] # <<"[]">>])

(* lines 149-204: alarm_labels of one alarm of the list *)
alarm_labels(df, date_str, alarm) ==
    LET r == waveform_row(df, make_timestamp(date_str, alarm.time))
    IN  IF r = 0 THEN <<>> ELSE extract_labels(AlarmLabel(df.rows[r]))

(* a faulty decision: one technical label is enough to drop the alarm *)
drops_alarm_any(tech, labels) ==
    \E i \in 1..Len(labels) : is_technical_alarm(tech, labels[i])

(* lines 207-245: clinical_count == 0 and technical_count > 0 *)
drops_alarm(tech, labels) ==
    LET technical_count == Cardinality({i \in 1..Len(labels) : is_technical_alarm(tech, labels[i])})
        clinical_count == Cardinality({i \in 1..Len(labels) : ~is_technical_alarm(tech, labels[i])})
    IN  labels # <<>> /\ clinical_count = 0 /\ technical_count > 0

(* a faulty guard: with no technical label loaded nothing is let through *)
filter_technical_alarms_empty(tech, df, date_str, alarms) ==
    IF tech = {} THEN <<>>
    ELSE SelectRows(alarms, [i \in 1..Len(alarms) |->
             ~drops_alarm(tech, alarm_labels(df, date_str, alarms[i]))])

(* filter_technical_alarms *)
filter_technical_alarms(tech, df, date_str, alarms) ==
    IF tech = {} THEN alarms
    ELSE SelectRows(alarms, [i \in 1..Len(alarms) |->
             ~drops_alarm(tech, alarm_labels(df, date_str, alarms[i]))])

(* has_nursing_records_for_alarm: strptime raises on a timestamp that is not
   to the second; _load_patient_data returns None or a DataFrame, `not None`
   returns False at line 304 and `not DataFrame` raises ValueError, which
   line 326 catches to return False *)
has_nursing_records_for_alarm(df, timestamp_str) ==
    IF ~strptime_ok(timestamp_str) THEN FALSE
    ELSE IF ~df.loaded THEN FALSE
    ELSE FALSE

(* filter_alarms_with_nursing_records *)
filter_alarms_with_nursing_records(df, date_str, alarms) ==
    SelectRows(alarms, [i \in 1..Len(alarms) |->
        has_nursing_records_for_alarm(df, make_timestamp(date_str, alarms[i].time))])

(* a faulty pipeline: the technical filter runs whatever its toggle says *)
filtered_alarms_ignore_toggle(c, tech, df, admission_id, date_str) ==
    LET raw == get_alarms_for_date(df, admission_id, date_str)
        a1 == IF c.nursing
              THEN filter_alarms_with_nursing_records(df, date_str, raw) ELSE raw
    IN  filter_technical_alarms(tech, df, date_str, a1)

(* load_alarm_data_for_date: the list handed to the timeline *)
filtered_alarms(c, tech, df, admission_id, date_str) ==
    LET raw == get_alarms_for_date(df, admission_id, date_str)
        a1 == IF c.nursing
              THEN filter_alarms_with_nursing_records(df, date_str, raw) ELSE raw
        a2 == IF c.technical
              THEN filter_technical_alarms(tech, df, date_str, a1) ELSE a1
    IN  a2

(* the <<patient, admission id, date>> selections of the review window *)
Selections == {
    <<"P1", <<"default">>, D1>>,
    <<"P1", D1 \o <<"_">> \o D3, D1>>,
    <<"P1", D1 \o <<"_">> \o D3, D2>>,
    <<"P2", <<"default">>, D1>> }

(* the alarm timestamps a nursing-record lookup is made for *)
Timestamps == {make_timestamp(D1, T1), make_timestamp(D1, T1us), make_timestamp(D2, T2)}

NoView == [op |-> "none", p |-> "", adm |-> <<>>, d |-> <<>>, inp |-> <<>>, out |-> <<>>]

ViewCall(op, p, adm, d, inp, out) ==
    [op |-> op, p |-> p, adm |-> adm, d |-> d, inp |-> inp, out |-> out]

storevars == <<file, writable, pending, queue, mpc, wvars, last, nSets, nReloads>>
fvars_cfg == <<technical_alarms, cfg, timeline>>

(* AlarmFilterConfig.enable_nursing_record_filter(enabled) *)
EnableNursingRecordFilter ==
    /\ \E enabled \in BOOLEAN : cfg' = [cfg EXCEPT !.nursing = enabled]
    /\ vlast' = ViewCall("config", "", <<>>, <<>>, <<>>, <<>>)
    /\ UNCHANGED <<storevars, cache, evars, technical_alarms, timeline>>

(* AlarmFilterConfig.enable_technical_alarm_filter(enabled) *)
EnableTechnicalAlarmFilter ==
    /\ \E enabled \in BOOLEAN : cfg' = [cfg EXCEPT !.technical = enabled]
    /\ vlast' = ViewCall("config", "", <<>>, <<>>, <<>>, <<>>)
    /\ UNCHANGED <<storevars, cache, evars, technical_alarms, timeline>>

(* PatientDataManager.load_alarm_data_for_date *)
LoadAlarmDataForDate ==
    /\ \E x \in Selections :
           LET p == x[1]
               adm == x[2]
               d == x[3]
               df == load_patient_data(cache["G"], file, p)
               shown == filtered_alarms(cfg, technical_alarms, df, adm, d)
           IN  /\ cache' = [cache EXCEPT !["G"][p] = df]
               /\ timeline' = shown
               /\ vlast' = ViewCall("load", p, adm, d,
                                    get_alarms_for_date(df, adm, d), shown)
    /\ UNCHANGED <<storevars, evars, technical_alarms, cfg>>

(* default_alarm_filter.filter_technical_alarms on a raw per-date list *)
FilterTechnicalAlarms ==
    /\ \E x \in Selections :
           LET p == x[1]
               adm == x[2]
               d == x[3]
               df == load_patient_data(cache["G"], file, p)
               raw == get_alarms_for_date(df, adm, d)
           IN  /\ cache' = [cache EXCEPT !["G"][p] = df]
               /\ vlast' = ViewCall("technical", p, adm, d, raw,
                                    filter_technical_alarms(technical_alarms, df, d, raw))
    /\ UNCHANGED <<storevars, evars, technical_alarms, cfg, timeline>>

(* default_alarm_filter.filter_alarms_with_nursing_records on a raw list *)
FilterAlarmsWithNursingRecords ==
    /\ \E x \in Selections :
           LET p == x[1]
               adm == x[2]
               d == x[3]
               df == load_patient_data(cache["G"], file, p)
               raw == get_alarms_for_date(df, adm, d)
           IN  /\ cache' = [cache EXCEPT !["G"][p] = df]
               /\ vlast' = ViewCall("nursing", p, adm, d, raw,
                                    filter_alarms_with_nursing_records(df, d, raw))
    /\ UNCHANGED <<storevars, evars, technical_alarms, cfg, timeline>>

(* NursingRecordManager.load_nursing_record: get_nursing_records_for_alarm *)
LoadNursingRecord ==
    /\ \E p \in Patients, ts \in Timestamps :
           LET df == load_patient_data(cache["G"], file, p)
           IN  /\ cache' = [cache EXCEPT !["G"][p] = df]
               /\ vlast' = ViewCall("records", p, <<>>, ts, <<>>,
                                    get_nursing_records_for_alarm(df, ts))
    /\ UNCHANGED <<storevars, evars, technical_alarms, cfg, timeline>>

(***************************************************************************)
(* The read operations of PatientDataJson.                                 *)
(***************************************************************************)
WaveNone == [kind |-> "None", idx |-> 0, wave |-> <<>>, num |-> <<>>, label |-> <<>>]
WaveRaise == [kind |-> "raise", idx |-> 0, wave |-> <<>>, num |-> <<>>, label |-> <<>>]

(* lines 511-524: the sample array of one channel *)
channel_samples(cell) == IF cell.kind = "list" THEN cell.val ELSE <<>>

(* np.array(waveform, dtype=np.float64) raises for a list that holds an
   element which is no number *)
converts(cell) == ~(cell.kind = "list" /\ Len(cell.val) > 0 /\ ~cell.numeric)

(* lines 526-552: [value, time_diff] with NaN turned into None *)
numeric_data(row) ==
    [n \in NumericParams |->
        <<IF notna(row.num[n][1]) THEN row.num[n][1] ELSE <<"None">>,
          IF notna(row.num[n][2]) THEN row.num[n][2] ELSE <<"None">> >>]

(* a faulty read: no check of the missing DataFrame, the lookup raises *)
get_waveform_data_unguarded(df, timestamp) ==
    IF ~df.loaded THEN WaveRaise
    ELSE LET r == waveform_row(df, timestamp)
         IN  IF r = 0 THEN WaveNone
             ELSE [kind |-> "dict", idx |-> df.rows[r].idx,
                   wave |-> [ch \in Channels |-> channel_samples(df.rows[r].wave[ch])],
                   num |-> numeric_data(df.rows[r]),
                   label |-> AlarmLabel(df.rows[r])]

(* get_waveform_data *)
get_waveform_data(df, timestamp) ==
    LET r == waveform_row(df, timestamp)
    IN  IF r = 0 THEN WaveNone
        ELSE IF \E ch \in Channels : ~converts(df.rows[r].wave[ch]) THEN WaveRaise
        ELSE [kind |-> "dict", idx |-> df.rows[r].idx,
              wave |-> [ch \in Channels |-> channel_samples(df.rows[r].wave[ch])],
              num |-> numeric_data(df.rows[r]),
              label |-> AlarmLabel(df.rows[r])]

(* the admission ids passed to the read operations *)
AdmissionIds == {<<"default">>, D1 \o <<"_">> \o D3, AdmA, AdmB}
Dates == {D1, D2, D3}

(* one read operation on the module-level store: the lazy load and the
   returned value *)
Read(op, p, adm, d, out) ==
    /\ cache' = [cache EXCEPT !["G"][p] = load_patient_data(cache["G"], file, p)]
    /\ vlast' = ViewCall(op, p, adm, d, <<>>, out)
    /\ UNCHANGED <<storevars, evars, fvars_cfg>>

GetAdmissionPeriods ==
    \E p \in Patients :
        Read("periods", p, <<>>, <<>>, get_admission_periods(View(p)))

GetAvailableDates ==
    \E p \in Patients, adm \in AdmissionIds :
        Read("dates", p, adm, <<>>, get_available_dates(View(p), adm))

GetAlarmsForDate ==
    \E p \in Patients, adm \in AdmissionIds, d \in Dates :
        Read("alarms", p, adm, d, get_alarms_for_date(View(p), adm, d))

GetNursingRecordsForAlarm ==
    \E p \in Patients, ts \in Timestamps :
        Read("records", p, <<>>, ts, get_nursing_records_for_alarm(View(p), ts))

GetWaveformData ==
    \E p \in Patients, ts \in Timestamps :
        Read("waveform", p, <<>>, ts, get_waveform_data(View(p), ts))

GetAlarmAnnotation ==
    \E p \in Patients, q \in Queries :
        Read("annotation", p, <<>>, make_timestamp(q[1], q[2]),
             get_alarm_annotation(View(p), q[1], q[2]))

GetPatientAlarmStats ==
    \E p \in Patients :
        Read("stats", p, <<>>, <<>>, get_patient_alarm_stats(View(p)))

(***************************************************************************)
(* The store with its worker, driven by the interactive thread.            *)
(***************************************************************************)
InitWith(sc, ref, lab) ==
    /\ file = sc.file
    /\ writable = sc.writable
    /\ cache = [s \in Stores |-> [p \in Patients |-> NotLoaded]]
    /\ pending = {}
    /\ queue = <<>>
    /\ mpc = [op |-> "idle", todo |-> <<>>]
    /\ wpc = "idle"
    /\ wp = ""
    /\ wOrig = <<>>
    /\ wStale = FALSE
    /\ wSnap = <<>>
    /\ wPos = <<1, 1>>
    /\ last = NoCall
    /\ wlast = NoTask
    /\ nSets = 0
    /\ nReloads = 0
    /\ true_alarm_records = load_true_alarm_records(ref)
    /\ epc = "idle"
    /\ es = "G"
    /\ ePats = <<>>
    /\ eWork = <<>>
    /\ eCount = <<0, 0>>
    /\ elast = NoVisit
    /\ eRun = 0
    /\ eWritten = {}
    /\ eLabeled = {}
    /\ eFailed = FALSE
    /\ technical_alarms = load_technical_alarms(lab)
    /\ cfg = [nursing |-> TRUE, technical |-> FALSE]
    /\ timeline = <<>>
    /\ vlast = NoView

Init == \E sc \in Scenarios : InitWith(sc, RefPresent, LabelsPresent)

Next ==
    \/ SetAnnotation
    \/ ReadPatient
    \/ ReloadPatient
    \/ ReloadAll
    \/ ReloadLoad
    \/ WorkerTake
    \/ WorkerCheck
    \/ WorkerCopy
    \/ WorkerOpen
    \/ WorkerDump
    \/ WorkerDone

Spec == Init /\ [][Next]_vars

(***************************************************************************)
(* The batch engine with the save worker of the global store and manual    *)
(* edits between two runs.                                                 *)
(***************************************************************************)
NextEngine ==
    \/ EngineStart
    \/ EnginePatient
    \/ EngineAlarm
    \/ EngineNext
    \/ EngineFinish
    \/ ManualEdit
    \/ WorkerTake
    \/ WorkerCheck
    \/ WorkerCopy
    \/ WorkerOpen
    \/ WorkerDump
    \/ WorkerDone

InitEngine == \E sc \in EngineScenarios : InitWith(sc, RefPresent, LabelsPresent)

SpecEngine == InitEngine /\ [][NextEngine]_vars

(***************************************************************************)
(* The review window: filter toggles, the per-date alarm list and the      *)
(* nursing records of an alarm.                                            *)
(***************************************************************************)
LabelFiles == {LabelsPresent, LabelsEmpty, LabelsMissing}

InitView == \E sc \in EngineScenarios, lab \in LabelFiles : InitWith(sc, RefPresent, lab)

NextView ==
    \/ EnableNursingRecordFilter
    \/ EnableTechnicalAlarmFilter
    \/ LoadAlarmDataForDate
    \/ FilterTechnicalAlarms
    \/ FilterAlarmsWithNursingRecords
    \/ LoadNursingRecord

SpecView == InitView /\ [][NextView]_vars

(***************************************************************************)
(* The batch engine and the technical filter started without their         *)
(* reference files.                                                        *)
(***************************************************************************)
InitDegraded ==
    \E sc \in {x \in Scenarios : x.file["P1"].rows = FrameA /\ x.file["P2"].st = "ok"},
       f \in {<<RefMissing, LabelsMissing>>, <<RefEmpty, LabelsEmpty>>} :
        InitWith(sc, f[1], f[2])

NextDegraded ==
    \/ EngineStart
    \/ EnginePatient
    \/ EngineAlarm
    \/ EngineNext
    \/ EngineFinish
    \/ WorkerTake
    \/ WorkerCheck
    \/ WorkerCopy
    \/ WorkerOpen
    \/ WorkerDump
    \/ WorkerDone
    \/ FilterTechnicalAlarms

SpecDegraded == InitDegraded /\ [][NextDegraded]_vars

(***************************************************************************)
(* The store with its save worker until the store is deleted.              *)
(***************************************************************************)
NextStop ==
    \/ SetAnnotation
    \/ WorkerTake
    \/ WorkerCheck
    \/ WorkerCopy
    \/ WorkerOpen
    \/ WorkerDump
    \/ WorkerDone
    \/ Stop
    \/ StopPut
    \/ WorkerExit

SpecStop == Init /\ [][NextStop]_vars

(***************************************************************************)
(* normalize_string and compare_records on field values that spell the     *)
(* same or different names with other case, whitespace and parentheses.    *)
(***************************************************************************)
FieldValues == {
    <<"dx", "a", "code1">>,
    <<"Dx", " ", "A", "(", "code1", ")">>,
    <<" ", "dx", " ", "a", " ", "(", "code1", ")", " ">>,
    <<"\t", "Dx", "a", "code1", "\t">>,
    <<"dx", "\t", "a", "code1">>,
    <<"(", "dx", ")", "a", "code1">>,
    <<"dx", "a">>,
    <<"dx", "z">>,
    <<>>,
    <<" ">>,
    <<"Int", " ", "B", "(", "code2", ")">>,
    <<"int", "b", "code2">> }

AttributeValues == {<<"Clonic">>, <<"none">>}

InitNorm ==
    \E sc \in {x \in Scenarios : x.file["P1"].rows = FrameB} :
        InitWith(sc, RefPresent, LabelsPresent)

(* AlarmValidator.normalize_string on two field values *)
NormalizeString ==
    /\ \E a, b \in FieldValues :
           vlast' = ViewCall("normalize", "", <<>>, <<>>, <<a, b>>,
                             <<normalize_string(a), normalize_string(b)>>)
    /\ UNCHANGED <<storevars, cache, evars, fvars_cfg>>

(* AlarmValidator.compare_records on a nursing record and a reference row *)
CompareRecords ==
    /\ \E a, b \in FieldValues, v \in AttributeValues :
           LET nursing_record == NR(a, <<"Int">>, <<"act">>, <<"attr">>, v)
               true_alarm_record == NR(b, <<"int", " ">>, <<"act">>, <<"attr">>,
                                       <<" ", "clonic">>)
           IN  vlast' = ViewCall("compare", "", <<>>, <<>>,
                                 <<nursing_record, true_alarm_record>>,
                                 compare_records(nursing_record, true_alarm_record))
    /\ UNCHANGED <<storevars, cache, evars, fvars_cfg>>

NextNorm ==
    \/ NormalizeString
    \/ CompareRecords

SpecNorm == InitNorm /\ [][NextNorm]_vars

(***************************************************************************)
(* The read operations on every kind of patient file.                      *)
(***************************************************************************)
InitRead == \E sc \in ReadScenarios : InitWith(sc, RefPresent, LabelsPresent)

NextRead ==
    \/ GetAdmissionPeriods
    \/ GetAvailableDates
    \/ GetAlarmsForDate
    \/ GetNursingRecordsForAlarm
    \/ GetWaveformData
    \/ GetAlarmAnnotation
    \/ GetPatientAlarmStats

SpecRead == InitRead /\ [][NextRead]_vars

SetStep == nSets' = nSets + 1

(* C1: read-after-write.  Right after set_alarm_annotation(p, a, d, t, c, m)
   returned True, and whatever the save worker has done since,
   get_alarm_annotation(p, a, d, t) returns classification c and comment m. *)
C1_ReadAfterWrite ==
    (last.op = "set" /\ last.ret) =>
        get_alarm_annotation(View(last.p), last.d, last.t)
            = [classification |-> last.c, comment |-> last.m]

C1_Witness ==
    /\ last.op = "set" /\ last.ret /\ last.c = "True"
    /\ last.p \in pending /\ queue # <<>>

(* C2: no acknowledged write is lost.  Once the save queue is empty and the
   worker is idle, the file of every cached patient holds the classification
   and the comment of the cache for every cached alarm (the file is writable
   and no reload was made). *)
C2_NoLostWrite ==
    (queue = <<>> /\ wpc = "idle" /\ nReloads = 0) =>
        \A p \in Patients :
            (cache["G"][p].loaded /\ writable[p]) =>
                /\ file[p].st = "ok"
                /\ \A i \in 1..Len(cache["G"][p].rows) :
                       \E k \in 1..Len(file[p].rows) :
                           /\ file[p].rows[k].idx = cache["G"][p].rows[i].idx
                           /\ file[p].rows[k].cls = cache["G"][p].rows[i].cls
                           /\ file[p].rows[k].cmt = cache["G"][p].rows[i].cmt

(* the save tasks of patient p that have not finished writing the file *)
TasksOf(p) ==
    Cardinality({i \in 1..Len(queue) : queue[i] = p})
    + (IF wpc \in {"check", "copy", "open", "dumping"} /\ wp = p THEN 1 ELSE 0)

(* C3: at most one durable-write task per patient is pending.  The queue and
   the worker together hold at most one unfinished task of a patient, and a
   set_alarm_annotation call for a patient in pending_saves enqueues nothing. *)
C3_OneTaskPerPatient ==
    /\ [](\A p \in Patients : TasksOf(p) <= 1)
    /\ [][(SetStep /\ last'.p \in pending) => queue' = queue]_vars

C3_Witness ==
    /\ nSets = 2 /\ last.op = "set" /\ last.ret
    /\ wpc = "copy" /\ wp = last.p /\ wPos = <<1, 1>>
    /\ queue = <<>> /\ last.p \in pending

(* C4: durable writes of one patient are serialized.  A patient's file changes
   only in a step of the save worker that is executing a task of that patient;
   no step of the calling thread writes a file. *)
C4_WritesSerialized ==
    [][\A p \in Patients :
          file'[p] # file[p] =>
              /\ wp = p /\ wpc \in {"open", "dumping"} /\ wpc' # wpc
              /\ last' = last /\ mpc' = mpc /\ cache' = cache]_vars

C4_Witness ==
    /\ wpc = "dumping" /\ file[wp].st = "partial"
    /\ queue # <<>> /\ last.op = "set" /\ last.ret

(* C5: a failed write leaves the state unchanged.  When set_alarm_annotation
   returns False (patient not loadable, or no row matches), no classification,
   comment or isSelected value seen by a reader changes and no save task is
   enqueued. *)
C5_FailedSetNoChange ==
    [][(SetStep /\ ~last'.ret) =>
          /\ \A p \in Patients : View(p)' = View(p)
          /\ queue' = queue
          /\ pending' = pending]_vars

C5_Witness ==
    /\ last.op = "set" /\ ~last.ret
    /\ cache["G"][last.p].loaded
    /\ first_match(cache["G"][last.p].rows, last.d, last.t) = 0

(* C6: a durable-write failure is signaled.  The worker never reports
   save_completed for a task of a patient whose file cannot be written. *)
C6_FailureSignaled ==
    ~(wlast.signal = "save_completed" /\ ~writable[wlast.p])

(* C7: classification changes only by set_alarm_annotation.  Every step that
   is not a set_alarm_annotation call (a read, a step of the background save,
   a step of reload_patient_data or reload_all_patients) leaves the
   classification that get_alarm_annotation returns for every alarm. *)
C7_OnlySetChanges ==
    [][~SetStep =>
          \A p \in Patients, q \in Queries :
              get_alarm_annotation(View(p), q[1], q[2]).classification'
                  = get_alarm_annotation(View(p), q[1], q[2]).classification]_vars

EngineAlarmStep == epc = "alarms" /\ eWork # <<>> /\ eWork' # eWork

(* C8: the engine is non-destructive.  Every verdict process_all_alarms
   stores goes to an alarm that was unset, just before the write, in the store
   that is written. *)
C8_NonDestructive ==
    ~(elast.kind = "validate" /\ elast.stored /\ elast.before # "None")

(* C9: the auto-classification rule.  After the engine has validated an unset
   alarm, the store it was given returns for that alarm the verdict of
   validate_alarm on the alarm's nursing records, with an empty comment; and
   after a run on a patient whose only alarm has a matching nursing record,
   get_patient_alarm_stats of that store is labeled 1 of total 1. *)
C9_Rule ==
    /\ [][(EngineAlarmStep /\ elast'.kind = "validate") =>
             get_alarm_annotation(cache'[es][elast'.p], elast'.d, elast'.t)
                 = [classification |-> elast'.verdict, comment |-> <<>>]]_vars
    /\ []((epc = "idle" /\ eRun >= 1 /\ nSets = 0 /\ file["P2"].st # "missing") =>
             get_patient_alarm_stats(load_patient_data(cache[es], file, "P2"))
                 = [labeled |-> 1, total |-> 1])

(* C10: idempotence of the engine.  A run of process_all_alarms that follows
   an earlier run with no manual edit in between changes the classification
   of no alarm the earlier run labeled, and validates none of them again. *)
C10_Idempotent ==
    [][EngineAlarmStep =>
          /\ \A x \in eLabeled :
                 get_alarm_annotation(View(x[1]), x[2], x[3]).classification'
                     = get_alarm_annotation(View(x[1]), x[2], x[3]).classification
          /\ (elast'.kind = "validate" => <<elast'.p, elast'.d, elast'.t>> \notin eLabeled)]_vars

(* C11: the batch engine covers every unlabeled alarm.  When a call of
   process_all_alarms has completed with no persistence failure (and no manual
   edit was made), every alarm the store it was given holds for every patient,
   alarms of an admission with a start and no end included, is classified:
   get_patient_alarm_stats reports labeled equal to total.  Stated for a call
   given the module-level store, the one the engine writes to. *)
C11_CoversAll ==
    (epc = "idle" /\ eRun >= 1 /\ nSets = 0 /\ ~eFailed /\ es = "G") =>
        \A p \in Patients :
            LET stats == get_patient_alarm_stats(load_patient_data(cache[es], file, p))
            IN  stats.labeled = stats.total

(* C12: the engine reads and writes through one store.  Every verdict that
   process_all_alarms(S) persists is written to S: right after the write,
   S.get_alarm_annotation returns the verdict, with an empty comment, for the
   alarm that was processed. *)
C12_SameStore ==
    [][(EngineAlarmStep /\ elast'.kind = "validate" /\ elast'.stored) =>
          get_alarm_annotation(load_patient_data(cache'[es], file', elast'.p),
                               elast'.d, elast'.t)
              = [classification |-> elast'.verdict, comment |-> <<>>]]_vars

(* C13: a persistence failure does not abort the batch.  When the save of one
   alarm fails (set_alarm_annotation returns False or something raises), the
   engine goes on with the remaining alarms of the patient and the remaining
   patients, the classification of the failed alarm is changed in no store
   and it is still unset in the store the engine was given. *)
C13_FailureContinues ==
    [][(EngineAlarmStep /\ elast'.kind = "validate" /\ ~elast'.stored) =>
          /\ eWork' = Tail(eWork)
          /\ ePats' = ePats
          /\ epc' = "alarms"
          /\ \A s \in Stores :
                 get_alarm_annotation(load_patient_data(cache'[s], file', elast'.p),
                                      elast'.d, elast'.t).classification
                     = get_alarm_annotation(load_patient_data(cache[s], file, elast'.p),
                                            elast'.d, elast'.t).classification
          /\ get_alarm_annotation(load_patient_data(cache'[es], file', elast'.p),
                                  elast'.d, elast'.t).classification = "None"]_vars

C13_Witness ==
    /\ eFailed
    /\ elast.kind = "validate" /\ elast.stored
    /\ elast.d = D2 /\ elast.t = T2

(* C14: missing reference data degrades, never fails.  With the reference
   true-alarm file missing or without rows the validator holds no reference
   row, every alarm process_all_alarms validates gets the verdict False and
   every verdict it stores is False; with the technical label file missing or
   yielding no label, filter_technical_alarms returns its input unchanged. *)
C14_Degrades ==
    /\ true_alarm_records = <<>>
    /\ technical_alarms = {}
    /\ elast.kind = "validate" =>
           /\ elast.verdict = "False"
           /\ elast.stored =>
                  get_alarm_annotation(View(elast.p), elast.d, elast.t).classification
                      = "False"
    /\ vlast.op = "technical" => vlast.out = vlast.inp

C14_Witness ==
    /\ elast.kind = "validate" /\ elast.stored
    /\ elast.p = "P2"
    /\ vlast.op = "technical" /\ vlast.p = "P1" /\ Len(vlast.inp) = 2

(* the row of df with DataFrame index idx *)
RowAt(df, idx) == df.rows[CHOOSE i \in 1..Len(df.rows) : df.rows[i].idx = idx]

(* the labels an alarm carries: the entries of a list-valued Label cell, or
   the labels a string-valued cell is parsed into *)
LabelsOf(row) ==
    IF row.label.kind = "list"
    THEN SelectRows(row.label.val, [i \in 1..Len(row.label.val) |->
             strip(row.label.val[i]) \notin {<<>>, <<"None">>, <<"[]">>}])
    ELSE extract_labels(AlarmLabel(row))

(* C15: the technical filter is all-or-nothing.  With a non-empty technical
   label set, filter_technical_alarms drops an alarm if and only if the alarm
   has at least one label and every label, normalized, is in the set; the
   other alarms are kept, in their order. *)
C15_AllOrNothing ==
    (vlast.op = "technical" /\ technical_alarms # {}) =>
        vlast.out = SelectRows(vlast.inp, [i \in 1..Len(vlast.inp) |->
            LET labels == LabelsOf(RowAt(View(vlast.p), vlast.inp[i].row_index))
            IN  ~(/\ labels # <<>>
                  /\ \A k \in 1..Len(labels) :
                         normalize_alarm_label(labels[k]) \in technical_alarms)])

C15_Witness ==
    /\ vlast.op = "technical" /\ technical_alarms # {}
    /\ Len(vlast.inp) = 2 /\ Len(vlast.out) = 1
    /\ vlast.out[1] = vlast.inp[1]

(* C16: the nursing-record filter keeps exactly the alarms for which
   get_nursing_records_for_alarm returns a non-empty list and drops exactly
   the alarms for which it returns an empty list. *)
C16_NursingFilter ==
    vlast.op = "nursing" =>
        vlast.out = SelectRows(vlast.inp, [i \in 1..Len(vlast.inp) |->
            get_nursing_records_for_alarm(View(vlast.p),
                make_timestamp(vlast.d, vlast.inp[i].time)) # <<>>])

(* C17: filter pipeline composition.  For each of the four combinations of
   the two toggles, the list load_alarm_data_for_date hands to the timeline is
   the raw get_alarms_for_date list passed through the enabled filters, the
   nursing-record filter first and the technical filter second; with both
   disabled it is the raw list. *)
C17_Pipeline ==
    vlast.op = "load" =>
        LET df == View(vlast.p)
            raw == get_alarms_for_date(df, vlast.adm, vlast.d)
            nursing(x) == filter_alarms_with_nursing_records(df, vlast.d, x)
            technical(x) == filter_technical_alarms(technical_alarms, df, vlast.d, x)
        IN  /\ vlast.inp = raw
            /\ timeline = vlast.out
            /\ (cfg.nursing /\ cfg.technical) => timeline = technical(nursing(raw))
            /\ (cfg.nursing /\ ~cfg.technical) => timeline = nursing(raw)
            /\ (~cfg.nursing /\ cfg.technical) => timeline = technical(raw)
            /\ (~cfg.nursing /\ ~cfg.technical) => timeline = raw

C17_Witness ==
    /\ vlast.op = "load"
    /\ ~cfg.nursing /\ ~cfg.technical
    /\ technical_alarms # {}
    /\ Len(timeline) = 2
    /\ Len(filter_technical_alarms(technical_alarms, View(vlast.p), vlast.d, timeline)) = 1

(* seconds from 2025-05-01 00:00:00 of an alarm timestamp *)
seconds(ts) == seconds_of_date(date_part(ts)) + seconds_of_time(time_part(ts))

(* all nursing records stored for a patient *)
AllRecords(df) == UNION {{df.rows[i].nr[k] : k \in 1..Len(df.rows[i].nr)} : i \in 1..Len(df.rows)}

(* the position of the first row stored with the alarm timestamp ts, 0 if none *)
AlarmRow(df, ts) ==
    LET m == {i \in 1..Len(df.rows) : df.rows[i].ts = ts}
    IN  IF ~df.loaded \/ m = {} THEN 0 ELSE CHOOSE i \in m : \A j \in m : i <= j

InWindow(rec, ts) == seconds(ts) - Window <= rec.at /\ rec.at <= seconds(ts) + Window

(* C18: window inclusivity.  get_nursing_records_for_alarm returns the
   patient's nursing records recorded within 30 minutes of the alarm, both
   ends included: a record exactly 30 minutes before or after is in the
   result, a record 30 minutes and 1 second away is not. *)
C18_Window ==
    vlast.op = "records" =>
        /\ \A k \in 1..Len(vlast.out) : InWindow(vlast.out[k], vlast.d)
        /\ \A rec \in AllRecords(View(vlast.p)) :
               (InWindow(rec, vlast.d) /\ AlarmRow(View(vlast.p), vlast.d) # 0) =>
                   \E k \in 1..Len(vlast.out) : vlast.out[k] = rec

(* C19: the list get_nursing_records_for_alarm returns is sorted ascending by
   the recording time; it holds every record stored for the alarm, records
   with the same recording time included, and records with the same recording
   time keep their stored relative order.  Stated for an alarm timestamp
   that is stored for the patient. *)
C19_Sorted ==
    (vlast.op = "records" /\ AlarmRow(View(vlast.p), vlast.d) # 0) =>
        LET df == View(vlast.p)
            stored == df.rows[AlarmRow(df, vlast.d)].nr
        IN  /\ \A i, j \in 1..Len(vlast.out) : i < j => vlast.out[i].at <= vlast.out[j].at
            /\ Len(vlast.out) = Len(stored)
            /\ \A i, j \in 1..Len(vlast.out) :
                   (i < j /\ vlast.out[i].at = vlast.out[j].at) =>
                       \E x, y \in 1..Len(stored) :
                           x < y /\ stored[x] = vlast.out[i] /\ stored[y] = vlast.out[j]

(* C20: set_alarm_annotation is idempotent.  A call that repeats the
   arguments of the call right before it, which returned True, returns True
   as well and leaves the cached classification and comment of the alarm and
   the alarm statistics of the patient as the first call left them. *)
C20_Idempotent ==
    [][(SetStep /\ last.op = "set" /\ last.ret
          /\ last'.op = "set" /\ last'.p = last.p /\ last'.d = last.d
          /\ last'.t = last.t /\ last'.c = last.c /\ last'.m = last.m) =>
            /\ last'.ret
            /\ get_alarm_annotation(load_patient_data(cache'["G"], file', last.p),
                                    last.d, last.t)
                   = get_alarm_annotation(View(last.p), last.d, last.t)
            /\ get_alarm_annotation(load_patient_data(cache'["G"], file', last.p),
                                    last.d, last.t)
                   = [classification |-> last.c, comment |-> last.m]
            /\ get_patient_alarm_stats(load_patient_data(cache'["G"], file', last.p))
                   = get_patient_alarm_stats(View(last.p))]_vars

C20_Witness ==
    /\ nSets = 2
    /\ last.op = "set" /\ last.again /\ last.ret
    /\ last.c = "True" /\ last.m = <<"note">>
    /\ get_alarm_annotation(View(last.p), last.d, last.t)
           = [classification |-> "True", comment |-> <<"note">>]

(* C21: a classification write touches a single row.  A set_alarm_annotation
   that returned True leaves, for every patient, the rows the store shows and
   the classification and comment of every alarm other than the one
   get_alarm_annotation resolves the arguments to unchanged; that alarm
   carries the classification and comment of the call. *)
C21_SingleRow ==
    [][(SetStep /\ last'.op = "set" /\ last'.ret) =>
          \A p \in Patients :
              LET pre  == View(p)
                  post == load_patient_data(cache'["G"], file', p)
                  i    == IF p = last'.p
                          THEN first_match(pre.rows, last'.d, last'.t) ELSE 0
              IN  /\ post.loaded = pre.loaded
                  /\ Len(post.rows) = Len(pre.rows)
                  /\ \A k \in 1..Len(pre.rows) :
                         /\ post.rows[k].ts = pre.rows[k].ts
                         /\ k # i => /\ post.rows[k].cls = pre.rows[k].cls
                                     /\ post.rows[k].cmt = pre.rows[k].cmt
                  /\ p = last'.p =>
                         /\ i # 0
                         /\ post.rows[i].cls = last'.c /\ post.rows[i].cmt = last'.m
                         /\ get_alarm_annotation(post, last'.d, last'.t)
                                = [classification |-> last'.c, comment |-> last'.m]]_vars

C21_Witness ==
    /\ last.op = "set" /\ last.ret /\ last.c = "False"
    /\ \E k \in 1..Len(View(last.p).rows) : View(last.p).rows[k].cls # "False"
    /\ \E q \in Patients : q # last.p /\ cache["G"][q].loaded

ReadOps == {"periods", "dates", "alarms", "records", "waveform", "annotation", "stats"}

(* the patient's file is missing, unreadable or holds no visible row *)
NoData(p) == ~View(p).loaded

(* C22: missing data degrades reads to empty or absent.  For a patient whose
   data file is missing or unreadable get_available_dates, get_alarms_for_date
   and get_nursing_records_for_alarm return an empty list, get_waveform_data
   returns None, get_alarm_annotation classification None with an empty
   comment and get_patient_alarm_stats labeled 0 and total 0; no read raises. *)
C22_MissingDegrades ==
    (vlast.op \in ReadOps /\ NoData(vlast.p)) =>
        /\ vlast.op \in {"dates", "alarms", "records"} => vlast.out = <<>>
        /\ vlast.op = "waveform" => vlast.out = WaveNone
        /\ vlast.op = "annotation" => vlast.out = NoAnnotation
        /\ vlast.op = "stats" => vlast.out = [labeled |-> 0, total |-> 0]

C22_Witness ==
    /\ vlast.op = "waveform" /\ vlast.out.kind = "None"
    /\ file[vlast.p].st = "partial"
    /\ \E q \in Patients : q # vlast.p /\ cache["G"][q].loaded

(* the rows of a patient that carry both AdmissionIn and AdmissionOut *)
ClosedRows(df) ==
    {i \in 1..Len(df.rows) : notna(df.rows[i].ain) /\ notna(df.rows[i].aout)}

(* C23: get_admission_periods never returns an empty list.  For any patient
   id the result holds at least one period, and when the patient has no
   admission period it is exactly the one synthetic period with id
   'default'. *)
C23_NeverEmpty ==
    vlast.op = "periods" =>
        /\ vlast.out # <<>>
        /\ ClosedRows(View(vlast.p)) = {} => vlast.out = <<DefaultPeriod>>

(* the ids of the closed admissions of a patient *)
ClosedIds(df) ==
    {date_part(df.rows[i].ain) \o <<"_">> \o date_part(df.rows[i].aout) :
        i \in ClosedRows(df)}

(* the alarms (row positions) of the closed admission with the given id *)
AlarmsOf(df, id) ==
    {i \in ClosedRows(df) :
        date_part(df.rows[i].ain) \o <<"_">> \o date_part(df.rows[i].aout) = id}

(* C24: admission-window date filtering.  For a patient with two admissions,
   get_available_dates for one of them returns a date only if an alarm of
   that admission falls on it; a date on which only alarms of the other
   admission occurred is not returned. *)
C24_AdmissionDates ==
    (vlast.op = "dates" /\ Cardinality(ClosedIds(View(vlast.p))) >= 2
       /\ vlast.adm \in ClosedIds(View(vlast.p))) =>
        LET df == View(vlast.p)
        IN  /\ \A k \in 1..Len(vlast.out) :
                   \E i \in AlarmsOf(df, vlast.adm) : date_part(df.rows[i].ts) = vlast.out[k]
            /\ \A other \in ClosedIds(df) \ {vlast.adm} :
                   \A j \in AlarmsOf(df, other) :
                       (\A i \in AlarmsOf(df, vlast.adm) :
                            date_part(df.rows[i].ts) # date_part(df.rows[j].ts)) =>
                           \A k \in 1..Len(vlast.out) : vlast.out[k] # date_part(df.rows[j].ts)

C24_Witness ==
    /\ vlast.op = "dates" /\ vlast.adm = AdmA
    /\ AdmB \in ClosedIds(View(vlast.p))
    /\ vlast.out = <<D1, D2>>
    /\ \E j \in AlarmsOf(View(vlast.p), AdmB) : date_part(View(vlast.p).rows[j].ts) = D3

(* the rows of an admission with a start and no end *)
OngoingRows(df) ==
    {i \in 1..Len(df.rows) : notna(df.rows[i].ain) /\ ~notna(df.rows[i].aout)}

(* C25: ongoing admissions are representable and queryable.  For a patient
   having alarms of an admission with a start and no end,
   get_admission_periods returns a period that starts on that admission's
   start date, is no closed period and is not the synthetic default one, and
   get_available_dates for its id returns the dates of the alarms of that
   admission. *)
C25_Ongoing ==
    (vlast.op = "periods" /\ OngoingRows(View(vlast.p)) # {}) =>
        LET df == View(vlast.p)
        IN  \A i \in OngoingRows(df) :
                \E k \in 1..Len(vlast.out) :
                    /\ vlast.out[k].start = date_part(df.rows[i].ain)
                    /\ vlast.out[k].id \notin ClosedIds(df) \cup {<<"default">>}
                    /\ \E x \in 1..Len(get_available_dates(df, vlast.out[k].id)) :
                           get_available_dates(df, vlast.out[k].id)[x]
                               = date_part(df.rows[i].ts)

(* C26: every date get_available_dates returns for a closed admission is the
   date of an alarm of the patient whose timestamp lies inside the
   admission's half-open window, AdmissionIn <= alarm time < AdmissionOut;
   the result is sorted ascending and has no duplicates. *)
C26_InsideWindow ==
    (vlast.op = "dates" /\ vlast.adm \in ClosedIds(View(vlast.p))) =>
        LET df == View(vlast.p)
        IN  /\ \A k \in 1..Len(vlast.out) :
                   \E i \in 1..Len(df.rows), a \in AlarmsOf(df, vlast.adm) :
                       /\ date_part(df.rows[i].ts) = vlast.out[k]
                       /\ seconds(df.rows[a].ain) <= seconds(df.rows[i].ts)
                       /\ seconds(df.rows[i].ts) < seconds(df.rows[a].aout)
            /\ \A j, k \in 1..Len(vlast.out) :
                   j < k => seconds_of_date(vlast.out[j]) < seconds_of_date(vlast.out[k])

(* a timestamp without its sub-second digits *)
to_second(ts) == split(ts, ".")[1]

(* C27: waveform timestamp fallback chain.  get_waveform_data returns the
   row whose timestamp equals the query when there is one, otherwise a row
   whose timestamp equals the query once the sub-second digits of either are
   ignored; it returns None only if no stored timestamp of the patient agrees
   with the query on date and time to the second. *)
C27_FallbackChain ==
    (vlast.op = "waveform" /\ View(vlast.p).loaded) =>
        LET df == View(vlast.p)
            exact == {i \in 1..Len(df.rows) : df.rows[i].ts = vlast.d}
            close == {i \in 1..Len(df.rows) : to_second(df.rows[i].ts) = to_second(vlast.d)}
        IN  /\ vlast.out.kind = "None" => close = {}
            /\ vlast.out.kind = "dict" =>
                   /\ exact # {} => \E i \in exact : df.rows[i].idx = vlast.out.idx
                   /\ exact = {} => \E i \in close : df.rows[i].idx = vlast.out.idx

(* a waveform cell that holds no sample sequence: a scalar that is no list,
   or a list with an element that is no number *)
Malformed(cell) == cell.kind = "scalar" \/ (cell.kind = "list" /\ ~cell.numeric)

(* C28: a malformed channel is isolated.  When the snapshot the timestamp
   resolves to has a malformed channel, get_waveform_data returns the
   snapshot without raising, with an empty sample sequence for that channel
   and with the samples of the other channels and the numeric vitals as
   stored. *)
C28_ChannelIsolated ==
    (vlast.op = "waveform" /\ waveform_row(View(vlast.p), vlast.d) # 0) =>
        LET row == View(vlast.p).rows[waveform_row(View(vlast.p), vlast.d)]
        IN  /\ vlast.out.kind = "dict"
            /\ \A ch \in Channels :
                   vlast.out.wave[ch] =
                       IF Malformed(row.wave[ch]) THEN <<>> ELSE channel_samples(row.wave[ch])
            /\ vlast.out.num = numeric_data(row)

(* a field value without its whitespace and parenthesis characters, in lower
   case: two values differ only in case, whitespace and parentheses iff
   they agree on it *)
Bare(s) ==
    lower(SelectRows(s, [i \in 1..Len(s) |-> s[i] \notin Whitespace \cup {"(", ")"}]))

SameFields(r, q) ==
    /\ Bare(r.dx) = Bare(q.dx) /\ Bare(r.iv) = Bare(q.iv) /\ Bare(r.ac) = Bare(q.ac)
    /\ Bare(r.co) = Bare(q.co) /\ Bare(r.va) = Bare(q.va)

(* C29: normalization equivalence.  normalize_string maps two field values
   that differ only in letter case, in leading, trailing or internal
   whitespace and in parenthesis characters to the same string, its output
   holds no whitespace and no parenthesis, and compare_records reports a
   match for two records whose five fields differ only in those respects. *)
C29_Normalization ==
    /\ vlast.op = "normalize" =>
           /\ Bare(vlast.inp[1]) = Bare(vlast.inp[2]) => vlast.out[1] = vlast.out[2]
           /\ \A k \in 1..2 : \A i \in 1..Len(vlast.out[k]) :
                  vlast.out[k][i] \notin Whitespace \cup {"(", ")"}
    /\ vlast.op = "compare" =>
           (SameFields(vlast.inp[1], vlast.inp[2]) => vlast.out)

(* a label string split at every '/' character, the parts stripped, empty
   parts and the parts 'None' and '[]' discarded *)
SplitEverySlash(raw) ==
    LET parts == split(raw, "/")
        labels == [i \in 1..Len(parts) |-> strip(parts[i])]
    IN  SelectRows(labels, [i \in 1..Len(labels) |->
            labels[i] # <<>> /\ labels[i] # <<"None">> /\ labels[i] # <<"[]">>])

(* C30: label parsing.  Before the technical-label test the raw alarm-label
   string is split at every '/' character, with or without surrounding
   spaces, empty tokens and the tokens 'None' and '[]' are discarded, and every
   remaining token is tested as a separate label: with a non-empty technical
   label set filter_technical_alarms drops exactly the alarms whose tokens are
   all technical. *)
C30_LabelParsing ==
    (vlast.op = "technical" /\ technical_alarms # {}) =>
        LET df == View(vlast.p)
            tokens(alarm) ==
                LET r == waveform_row(df, make_timestamp(vlast.d, alarm.time))
                IN  IF r = 0 THEN <<>> ELSE SplitEverySlash(AlarmLabel(df.rows[r]))
        IN  vlast.out = SelectRows(vlast.inp, [i \in 1..Len(vlast.inp) |->
                ~drops_alarm(technical_alarms, tokens(vlast.inp[i]))])

(* the alarms of a patient whose get_alarm_annotation classification is True
   or False *)
Classified(df) ==
    {i \in 1..Len(df.rows) :
        get_alarm_annotation(df, date_part(df.rows[i].ts), time_part(df.rows[i].ts)).classification
            \in {"True", "False"}}

StatsTrack ==
    \A p \in Patients :
        LET df == View(p)
            stats == get_patient_alarm_stats(df)
        IN  /\ stats.total = Len(df.rows)
            /\ stats.labeled = Cardinality(Classified(df))
            /\ 0 <= stats.labeled /\ stats.labeled <= stats.total

(* C31: alarm statistics track the classifications.  After any sequence of
   set_alarm_annotation calls get_patient_alarm_stats reports total equal to
   the number of the patient's alarms and labeled equal to the number of
   alarms whose get_alarm_annotation classification is True or False, with
   0 <= labeled <= total; no classification write changes total. *)
C31_StatsTrack ==
    /\ []StatsTrack
    /\ [][SetStep =>
             \A p \in Patients :
                 get_patient_alarm_stats(load_patient_data(cache'["G"], file', p)).total
                     = get_patient_alarm_stats(View(p)).total]_vars

C31_Witness ==
    /\ nSets = 2 /\ last.op = "set" /\ last.ret /\ last.c = "None"
    /\ \E i \in 1..Len(View(last.p).rows) :
           View(last.p).rows[i].sel /\ View(last.p).rows[i].cls = "None"
    /\ get_patient_alarm_stats(View(last.p)).labeled = 0
    /\ get_patient_alarm_stats(View(last.p)).total = 2

(* the rows of the file of p that are shown and carry the timestamp ts, by
   position in the file *)
Shown(p, ts) == {k \in 1..Len(file[p].rows) : file[p].rows[k].isView /\ file[p].rows[k].ts = ts}

(* C32: timestamp uniqueness after dedup.  Once a patient's data is loaded no
   two alarms in the cache have the same timestamp; of several shown rows of
   the file with exactly the same timestamp the first one in file order is
   the one in the cache; no later operation introduces a duplicate. *)
C32_UniqueTimestamps ==
    \A s \in Stores : \A p \in Patients :
        LET rows == cache[s][p].rows
        IN  cache[s][p].loaded =>
              /\ \A i, j \in 1..Len(rows) : rows[i].ts = rows[j].ts => i = j
              /\ file[p].st = "ok" =>
                    \A i \in 1..Len(rows) :
                        /\ Shown(p, rows[i].ts) # {}
                        /\ \A k \in Shown(p, rows[i].ts) :
                               \E f \in Shown(p, rows[i].ts) :
                                   f <= k /\ file[p].rows[f].idx = rows[i].idx

C32_Witness ==
    /\ cache["G"]["P1"].loaded /\ file["P1"].st = "ok"
    /\ \E k, l \in 1..Len(file["P1"].rows) :
           /\ k < l /\ file["P1"].rows[k].isView /\ file["P1"].rows[l].isView
           /\ file["P1"].rows[k].ts = file["P1"].rows[l].ts
           /\ \E i \in 1..Len(cache["G"]["P1"].rows) :
                  cache["G"]["P1"].rows[i].idx = file["P1"].rows[k].idx
    /\ nSets = 2 /\ nReloads = 1 /\ last.op = "set" /\ last.ret /\ last.p = "P1"

(* the admission a stored alarm is tagged with, as an admission id *)
TaggedId(row) ==
    IF notna(row.ain) /\ notna(row.aout)
    THEN date_part(row.ain) \o <<"_">> \o date_part(row.aout)
    ELSE <<>>

(* C33: get_alarms_for_date returns only alarms whose timestamp date equals
   the requested date and that belong to the requested admission (every
   alarm of the patient for the id 'default'), each stored alarm at most
   once, ordered by time of day ascending. *)
C33_AlarmsForDate ==
    (vlast.op = "alarms") =>
        LET df == View(vlast.p)
            out == vlast.out
        IN  /\ \A k \in 1..Len(out) :
                   \E i \in 1..Len(df.rows) :
                       /\ df.rows[i].idx = out[k].row_index
                       /\ date_part(df.rows[i].ts) = vlast.d
                       /\ time_part(df.rows[i].ts) = out[k].time
                       /\ vlast.adm # <<"default">> => TaggedId(df.rows[i]) = vlast.adm
            /\ \A k, l \in 1..Len(out) : out[k].row_index = out[l].row_index => k = l
            /\ \A k, l \in 1..Len(out) :
                   k < l => seconds_of_time(out[k].time) <= seconds_of_time(out[l].time)

C33_Witness ==
    /\ vlast.op = "alarms" /\ vlast.adm = D1 \o <<"_">> \o D3 /\ vlast.d = D1
    /\ Len(vlast.out) = 2
    /\ vlast.out[1].time = T2 /\ vlast.out[2].time = Tout
    /\ vlast.out[1].row_index > vlast.out[2].row_index
    /\ \E i \in 1..Len(View(vlast.p).rows) :
           /\ date_part(View(vlast.p).rows[i].ts) = D1
           /\ TaggedId(View(vlast.p).rows[i]) # vlast.adm

(* the classification/comment pairs the cache can hold for an alarm of p at
   one moment: the pairs of the data directory as it was found and the pairs
   written by a set_alarm_annotation call *)
HeldPairs(p) ==
    UNION {{<<sc.file[p].rows[k].cls, sc.file[p].rows[k].cmt>> : k \in 1..Len(sc.file[p].rows)}
              : sc \in Scenarios}
    \cup {<<in[4], in[5]>> : in \in {x \in SetInputs : x[1] = p}}

(* C34: durable writes are not torn.  The classification/comment pair stored
   in a patient's file after a background save is a pair the cache held for
   that alarm at one single moment; the file never combines the
   classification of one set call with the comment of another. *)
C34_NotTorn ==
    \A p \in Patients :
        file[p].st = "ok" =>
            \A k \in 1..Len(file[p].rows) :
                <<file[p].rows[k].cls, file[p].rows[k].cmt>> \in HeldPairs(p)

InQueue(p) == \E k \in 1..Len(queue) : queue[k] = p

(* C35: pending_saves is always eventually cleared.  The id of a task taken
   by the worker is removed from pending_saves when the task ends, on every
   path of _save_patient_data_sync; a patient is never left in pending_saves
   with no task queued or running. *)
C35_PendingCleared ==
    \A p \in pending : InQueue(p) \/ (wpc # "idle" /\ wp = p)

(* C36: shutdown drains the queue.  Every save task enqueued before stop()
   is called is executed before the worker thread terminates; the worker
   never exits while a task enqueued earlier is still waiting in save_queue. *)
C36_ShutdownDrains ==
    wpc = "exited" => \A k \in 1..Len(queue) : queue[k] = "None"

(* the index labels of the rows of a file that a load puts in the cache *)
CachedIdx(rows) ==
    LET df == drop_duplicates(filter_isView(rows))
    IN  {df[i].idx : i \in 1..Len(df)}

(* row r is row q with other Classification, Comment, isSelected values *)
SameButAnnotation(r, q) == r = [q EXCEPT !.cls = r.cls, !.cmt = r.cmt, !.sel = r.sel]

(* C37: frame of the background save.  In a patient file that exists, saves
   change only the Classification, Comment and isSelected values of rows
   that are present in the cache; a row that is not in the cache (isView
   false, or dropped as a duplicate timestamp) keeps all its values, and no
   other column of any row is modified. *)
C37_SaveFrame ==
    \A p \in Patients :
        file[p].st = "ok" =>
            \E sc \in {x \in Scenarios : x.file[p].st = "ok"} :
                LET was == sc.file[p].rows
                    now == file[p].rows
                IN  /\ Len(now) = Len(was)
                    /\ \A k \in 1..Len(now) :
                           IF was[k].idx \in CachedIdx(was)
                           THEN SameButAnnotation(now[k], was[k])
                           ELSE now[k] = was[k]

C37_Witness ==
    /\ wlast = task_end("P1", TRUE)
    /\ file["P1"].st = "ok" /\ Len(file["P1"].rows) = Len(FrameB)
    /\ file["P1"].rows[1].cls = "False" /\ FrameB[1].cls = "True"
    /\ ~file["P1"].rows[2].isView /\ file["P1"].rows[2] = FrameB[2]
    /\ file["P1"].rows[3].ts = file["P1"].rows[1].ts /\ file["P1"].rows[3] = FrameB[3]

(* C38: admission ids are unique per patient.  get_admission_periods never
   returns two periods with the same id, also when two distinct
   (AdmissionIn, AdmissionOut) pairs share their start and end dates and
   differ only in time of day, so every alarm is returned by
   get_alarms_for_date under at most one of the returned periods. *)
C38_UniqueIds ==
    (vlast.op = "periods") =>
        LET df == View(vlast.p)
            out == vlast.out
        IN  /\ \A k, l \in 1..Len(out) : out[k].id = out[l].id => k = l
            /\ \A i \in 1..Len(df.rows) : \A d \in Dates :
                   Cardinality({k \in 1..Len(out) :
                       \E a \in 1..Len(get_alarms_for_date(df, out[k].id, d)) :
                           get_alarms_for_date(df, out[k].id, d)[a].row_index = df.rows[i].idx})
                     <= 1

====
